---- MODULE Spec2Model ----
(***************************************************************************)
(* arXivisual backend: the generation-and-validation pipeline of           *)
(* backend/agents/pipeline.py.                                             *)
(*                                                                         *)
(* generate_single_visualization is a retry loop around a code generator   *)
(* and four quality gates (CodeValidator, SpatialValidator,                *)
(* VoiceoverScriptValidator, RenderTester); generate_visualizations fans   *)
(* it out over the candidates of a paper and gathers the results.          *)
(*                                                                         *)
(* Texts are abstract values.  A piece of generated code is a record that  *)
(* names the attempt that generated it and the rewrites applied to it.     *)
(* The issue list a gate reports is the set {<<gate, attempt>>}: the text  *)
(* produced by that gate on that attempt.                                  *)
(***************************************************************************)
EXTENDS Integers, Sequences, FiniteSets, TLC

\* Bounds of the model: the largest configured retry counts explored.
MaxRetriesBound == 2
MaxVoiceRetriesBound == 1

VARIABLES
    cfg,    \* module-level configuration of pipeline.py (lines 67-86)
    deps,   \* which optional collaborators the caller passed (None or not)
    task,   \* task[c]: the locals of generate_single_visualization(candidate c)
    paper   \* generate_visualizations: where it is, and the list it returns

vars == <<cfg, deps, task, paper>>

Cands == DOMAIN task

----------------------------------------------------------------------------
\* Abstract values

NoCode == [gen |-> -1, fixed |-> FALSE, legacy |-> FALSE]

\* The text the generator returns on attempt n.
Generated(n) == [gen |-> n, fixed |-> FALSE, legacy |-> FALSE]

\* CodeValidator's rewrite of a text (the inserted import).
AutoFix(code) == [code EXCEPT !.fixed = TRUE]

\* VoiceoverGenerator's transform of a text.
LegacyTransform(code) == [code EXCEPT !.legacy = TRUE]

\* Optional[...] results of the gates: None, or the issues the result carries.
NoResult == [present |-> FALSE, issues |-> {}]
Result(issues) == [present |-> TRUE, issues |-> issues]

Issue(gate, attempt) == <<gate, attempt>>

FallbackMessage == <<"unknown", 0>>

NoCall == [fn |-> "none", previous_code |-> NoCode, error_message |-> {}]

\* The value a call returns: None, or a Visualization of the candidate (lines 429-437,
\* 449-457).
NoneValue ==
    [kind |-> "None", concept |-> 0, manim_code |-> NoCode, status |-> "", video_url |-> ""]
Visualization(candidate, code) ==
    [kind |-> "Visualization", concept |-> candidate, manim_code |-> code,
     status |-> "pending", video_url |-> "None"]

----------------------------------------------------------------------------
\* What the collaborators may answer.

\* CodeValidator.validate: ValidatorOutput(is_valid, needs_regeneration,
\* issues_found, issues_fixed, code).
ValidatorOutputs ==
    [is_valid : BOOLEAN, needs_regeneration : BOOLEAN, has_issues : BOOLEAN, has_fixed : BOOLEAN]

\* SpatialValidator.validate: SpatialValidatorOutput(has_spatial_issues, needs_regeneration).
SpatialOutputs == [has_spatial_issues : BOOLEAN, needs_regeneration : BOOLEAN]

\* RenderTester.test_render: RenderTestOutput(success).
RenderOutputs == [success : BOOLEAN]

----------------------------------------------------------------------------
\* generate_single_visualization, one operator per stage on the locals t.

voiceover_enabled_for_generation ==
    cfg.ENABLE_VOICEOVER /\ cfg.VOICE_MODE = "unified_generator"

\* Fault variant of max_attempts: the narration allowance is added in every mode.
max_attempts_always_voice == cfg.MAX_RETRIES + cfg.VOICE_QUALITY_RETRIES

max_attempts ==
    cfg.MAX_RETRIES + (IF voiceover_enabled_for_generation THEN cfg.VOICE_QUALITY_RETRIES ELSE 0)

\* The locals at the entry of generate_single_visualization(candidate).
InitTask(candidate) ==
    [candidate |-> candidate, pc |-> "plan", attempt |-> 0,
     code_result |-> NoCode, current_code |-> NoCode,
     validation |-> NoResult, spatial_result |-> NoResult,
     voice_result |-> NoResult, render_result |-> NoResult,
     gen_call |-> NoCall, calls |-> [run |-> 0, run_with_feedback |-> 0], ran |-> <<>>,
     outcome |-> "running", result |-> NoneValue]

\* return: the call is over and its locals are gone; what remains is the returned
\* value, and the record of the calls that were made (attempt, gen_call, ran).
Return(t, outcome, value) ==
    [t EXCEPT !.pc = "done", !.outcome = outcome, !.result = value,
              !.code_result = NoCode, !.current_code = NoCode,
              !.validation = NoResult, !.spatial_result = NoResult,
              !.voice_result = NoResult, !.render_result = NoResult]

\* except Exception: log and return None (lines 459-461).
Caught(t) == Return(t, "error", NoneValue)

\* Fault variant of EnterAttempt: range(max_attempts + 1), one attempt too many.
EnterAttemptOneMore(t, n) ==
    IF n <= max_attempts
    THEN [t EXCEPT !.pc = "generate", !.attempt = n]
    ELSE [t EXCEPT !.pc = "exhausted"]

\* The top of the for loop (line 308): the next iteration, or the else block.
EnterAttempt(t, n) ==
    IF n < max_attempts
    THEN [t EXCEPT !.pc = "generate", !.attempt = n]
    ELSE [t EXCEPT !.pc = "exhausted"]

\* Fault variant of Continue: the iteration is repeated, the loop index stands still.
ContinueSameAttempt(t) == EnterAttempt([t EXCEPT !.current_code = NoCode], t.attempt)

\* continue.  current_code is dead here: every read of it (lines 361, 376, 407,
\* 419) follows its assignment at line 352 in the same iteration.
Continue(t) == EnterAttempt([t EXCEPT !.current_code = NoCode], t.attempt + 1)

\* planner.run returned (lines 287-306).
Planned(t) == EnterAttempt(t, 0)

\* Fault variant of FeedbackParts: an elif chain, only the first part is kept.
FeedbackPartsFirstOnly(t) ==
    IF t.validation.present /\ t.validation.issues # {} THEN <<t.validation.issues>>
    ELSE IF t.spatial_result.present /\ t.spatial_result.issues # {}
         THEN <<t.spatial_result.issues>>
    ELSE IF t.voice_result.present /\ t.voice_result.issues # {}
         THEN <<t.voice_result.issues>>
    ELSE IF t.render_result.present /\ t.render_result.issues # {}
         THEN <<t.render_result.issues>>
    ELSE <<>>

\* feedback_parts (lines 311, 322-329): one part per stored result that carries issues.
FeedbackParts(t) ==
    (IF t.validation.present /\ t.validation.issues # {} THEN <<t.validation.issues>> ELSE <<>>)
    \o (IF t.spatial_result.present /\ t.spatial_result.issues # {}
        THEN <<t.spatial_result.issues>> ELSE <<>>)
    \o (IF t.voice_result.present /\ t.voice_result.issues # {}
        THEN <<t.voice_result.issues>> ELSE <<>>)
    \o (IF t.render_result.present /\ t.render_result.issues # {}
        THEN <<t.render_result.issues>> ELSE <<>>)

\* "\n\n".join(feedback_parts), or the fixed fallback text (line 331).
CombinedFeedback(t) ==
    LET parts == FeedbackParts(t)
    IN  IF parts # <<>>
        THEN UNION {parts[i] : i \in DOMAIN parts}
        ELSE {FallbackMessage}

\* Fault variant of GeneratorCall: every attempt generates afresh.
GeneratorCallAlwaysRun(t) ==
    [fn |-> "run", previous_code |-> NoCode, error_message |-> {}]

\* The generator call of this attempt (lines 312-341).
GeneratorCall(t) ==
    IF t.attempt = 0
    THEN [fn |-> "run", previous_code |-> NoCode, error_message |-> {}]
    ELSE [fn |-> "run_with_feedback",
          previous_code |-> t.code_result,
          error_message |-> CombinedFeedback(t)]

\* The generator returned a GeneratedCode (lines 313, 332).
\* The call log observes the calls a task makes; it is no state of the program:
\* gen_call is the last generator call and its arguments, calls counts the generator
\* calls, ran lists the gates invoked since the last generator call.  The arguments
\* and the gates are logged for a direct call of generate_single_visualization only;
\* the calls are counted everywhere.
Logging == paper.pc = "direct"

Called(t) ==
    LET t1 == [t EXCEPT !.calls = IF t.attempt = 0
                                  THEN [@ EXCEPT !.run = @ + 1]
                                  ELSE [@ EXCEPT !.run_with_feedback = @ + 1]]
    IN  IF Logging
        THEN [t1 EXCEPT !.gen_call = GeneratorCall(t), !.ran = <<>>]
        ELSE t1

GeneratedStage(t) ==
    [Called(t) EXCEPT
              !.code_result = Generated(t.attempt),
              !.pc = "structure"]

\* Fault variant of GeneratorRaised: the exception is handled inside the loop and
\* the next attempt starts.
GeneratorRaisedRetries(t) == Continue(Called(t))

\* The generator raised.
GeneratorRaised(t) == Caught(Called(t))

\* The gates invoked since the last generator call, in order: the text each was
\* given, the text the pipeline took from it (validation.code at line 352; the other
\* gates return none, and a rejected result's text is never read), and its answer.
Ran(t, gate, code, out, accepted, issues) ==
    IF Logging
    THEN Append(t.ran, [gate |-> gate, code |-> code, out |-> out,
                        accepted |-> accepted, issues |-> issues])
    ELSE t.ran

\* Fault variant of CodeValidationStage: validation.code is ignored, the raw
\* generator output flows on.
CodeValidationStageKeepsRaw(t, out) ==
    LET issues == IF out.has_issues THEN {Issue("structure", t.attempt)} ELSE {}
        code == IF out.has_fixed THEN AutoFix(t.code_result) ELSE t.code_result
        t1 == [t EXCEPT !.validation = Result(issues)]
    IN  IF out.needs_regeneration \/ ~out.is_valid
        THEN Continue([t1 EXCEPT
                 !.ran = Ran(t, "structure", t.code_result, NoCode, FALSE, issues)])
        ELSE [t1 EXCEPT !.ran = Ran(t, "structure", t.code_result, code, TRUE, issues),
                        !.current_code = t.code_result,
                        !.pc = "spatial"]

\* Stage 1 (lines 343-356).
CodeValidationStage(t, out) ==
    LET issues == IF out.has_issues THEN {Issue("structure", t.attempt)} ELSE {}
        code == IF out.has_fixed THEN AutoFix(t.code_result) ELSE t.code_result
        t1 == [t EXCEPT !.validation = Result(issues)]
    IN  IF out.needs_regeneration \/ ~out.is_valid
        THEN Continue([t1 EXCEPT
                 !.ran = Ran(t, "structure", t.code_result, NoCode, FALSE, issues)])
        ELSE [t1 EXCEPT !.ran = Ran(t, "structure", t.code_result, code, TRUE, issues),
                        !.current_code = code,
                        !.pc = "spatial"]

\* Fault variant of SpatialStage: no continue after a rejection, the attempt goes on.
SpatialStageFallsThrough(t, out) ==
    LET issues == IF out.has_spatial_issues THEN {Issue("spatial", t.attempt)} ELSE {}
        t1 == [t EXCEPT !.spatial_result = Result(issues)]
    IN  [t1 EXCEPT !.ran = Ran(t, "spatial", t.current_code, NoCode,
                               ~out.needs_regeneration, issues),
                   !.pc = "narration"]

\* Stage 2 (lines 358-371).
SpatialStage(t, out) ==
    LET issues == IF out.has_spatial_issues THEN {Issue("spatial", t.attempt)} ELSE {}
        t1 == [t EXCEPT !.spatial_result = Result(issues)]
    IN  IF out.needs_regeneration
        THEN Continue([t1 EXCEPT
                 !.ran = Ran(t, "spatial", t.current_code, NoCode, FALSE, issues)])
        ELSE [t1 EXCEPT !.ran = Ran(t, "spatial", t.current_code, NoCode, TRUE, issues),
                        !.pc = "narration"]

SpatialSkipped(t) == [t EXCEPT !.pc = "narration"]

\* VoiceoverScriptValidator.validate, lines 136-137: is_valid and needs_regeneration
\* from the recorded issues and the instance's strict flag.
VoiceNeedsRegeneration(strict, has_issues) ==
    LET is_valid == ~has_issues
    IN  IF strict THEN ~is_valid ELSE FALSE

NarrationGateRuns ==
    voiceover_enabled_for_generation /\ deps.voiceover_script_validator # "None"

\* Fault variant of NarrationStage: code_result.code is not rewritten (no line 377).
NarrationStageKeepsCodeResult(t, has_issues) ==
    LET issues == IF has_issues THEN {Issue("narration", t.attempt)} ELSE {}
        t1 == [t EXCEPT !.voice_result = Result(issues)]
    IN  IF VoiceNeedsRegeneration(deps.voiceover_script_validator = "strict", has_issues)
        THEN Continue([t1 EXCEPT
                 !.ran = Ran(t, "narration", t.current_code, NoCode, FALSE, issues)])
        ELSE [t1 EXCEPT !.ran = Ran(t, "narration", t.current_code, NoCode, TRUE, issues),
                        !.pc = "render"]

\* Stage 3 (lines 373-402).
NarrationStage(t, has_issues) ==
    LET issues == IF has_issues THEN {Issue("narration", t.attempt)} ELSE {}
        t1 == [t EXCEPT !.code_result = t.current_code,
                        !.voice_result = Result(issues)]
    IN  IF VoiceNeedsRegeneration(deps.voiceover_script_validator = "strict", has_issues)
        THEN Continue([t1 EXCEPT
                 !.ran = Ran(t, "narration", t1.code_result, NoCode, FALSE, issues)])
        ELSE [t1 EXCEPT !.ran = Ran(t, "narration", t1.code_result, NoCode, TRUE, issues),
                        !.pc = "render"]

\* The validator raised: code_result was already rewritten (line 377).
NarrationRaised(t) == Caught([t EXCEPT !.code_result = t.current_code])

NarrationSkipped(t) == [t EXCEPT !.pc = "render"]

LegacyTransformApplies ==
    cfg.ENABLE_VOICEOVER /\ cfg.VOICE_MODE = "legacy_post_transform"
    /\ deps.legacy_voiceover_generator

\* Fault variant of AllPassed: code_result.code is not rewritten (no line 419).
AllPassedKeepsCodeResult(t) ==
    IF LegacyTransformApplies
    THEN [t EXCEPT !.pc = "legacy"]
    ELSE Return(t, "accepted", Visualization(t.candidate, t.code_result))

\* All gates passed (lines 419-421), then the code after the loop (lines 441-457).
AllPassed(t) ==
    LET t1 == [t EXCEPT !.code_result = t.current_code]
    IN  IF LegacyTransformApplies
        THEN [t1 EXCEPT !.pc = "legacy"]
        ELSE Return(t1, "accepted", Visualization(t.candidate, t1.code_result))

\* Fault variant of RenderStage: a failed render is raised instead of retried.
RenderStageRaisesOnFailure(t, out) ==
    LET issues == IF out.success THEN {} ELSE {Issue("render", t.attempt)}
        t1 == [t EXCEPT !.render_result = Result(issues)]
    IN  IF ~out.success
        THEN Caught([t1 EXCEPT
                 !.ran = Ran(t, "render", t.current_code, NoCode, FALSE, issues)])
        ELSE AllPassed([t1 EXCEPT
                 !.ran = Ran(t, "render", t.current_code, NoCode, TRUE, issues)])

\* Stage 4 (lines 404-417).
RenderStage(t, out) ==
    LET issues == IF out.success THEN {} ELSE {Issue("render", t.attempt)}
        t1 == [t EXCEPT !.render_result = Result(issues)]
    IN  IF ~out.success
        THEN Continue([t1 EXCEPT
                 !.ran = Ran(t, "render", t.current_code, NoCode, FALSE, issues)])
        ELSE AllPassed([t1 EXCEPT
                 !.ran = Ran(t, "render", t.current_code, NoCode, TRUE, issues)])

RenderSkipped(t) == AllPassed(t)

\* Fault variant of LegacyStage: transformed_code is not taken (no line 447).
LegacyStageKeepsCode(t) ==
    Return(t, "accepted", Visualization(t.candidate, t.code_result))

\* legacy_voiceover_generator.run returned (lines 446-457).
LegacyStage(t) ==
    Return(t, "accepted", Visualization(t.candidate, LegacyTransform(t.code_result)))

\* Fault variant of ExhaustedStage: return_silent is not honoured.
ExhaustedStageNeverSilent(t) ==
    IF cfg.VOICE_FAIL_BEHAVIOR = "hard_error"
    THEN Caught(t)
    ELSE Return(t, "dropped", NoneValue)

\* Fault variant of ExhaustedStage: the last code is returned under drop_viz too.
ExhaustedStageNeverDrops(t) ==
    IF cfg.VOICE_FAIL_BEHAVIOR = "hard_error"
    THEN Caught(t)
    ELSE IF t.code_result # NoCode
         THEN Return(t, "silent", Visualization(t.candidate, t.code_result))
         ELSE Return(t, "dropped", NoneValue)

\* Fault variant of ExhaustedStage: the artifact returned under return_silent is
\* marked as failed.
ExhaustedStageMarksSilent(t) ==
    IF cfg.VOICE_FAIL_BEHAVIOR = "hard_error"
    THEN Caught(t)
    ELSE IF cfg.VOICE_FAIL_BEHAVIOR = "return_silent" /\ t.code_result # NoCode
         THEN Return(t, "silent", [Visualization(t.candidate, t.code_result)
                                       EXCEPT !.status = "failed"])
         ELSE Return(t, "dropped", NoneValue)

\* The else block of the loop (lines 422-439).
ExhaustedStage(t) ==
    IF cfg.VOICE_FAIL_BEHAVIOR = "hard_error"
    THEN Caught(t)
    ELSE IF cfg.VOICE_FAIL_BEHAVIOR = "return_silent" /\ t.code_result # NoCode
         THEN Return(t, "silent", Visualization(t.candidate, t.code_result))
         ELSE Return(t, "dropped", NoneValue)

----------------------------------------------------------------------------
\* generate_visualizations

\* No paper-level call: generate_single_visualization was called directly.
NoPaper == [pc |-> "direct", visualizations |-> <<>>]

\* Fault variant of GatherResults: the first failed candidate ends the collection.
RECURSIVE GatherResultsStopsAtFailure(_)
GatherResultsStopsAtFailure(results) ==
    IF results = <<>>
    THEN <<>>
    ELSE LET result == Head(results)
         IN  IF result.kind \in {"Exception", "None"}
             THEN <<>>
             ELSE <<result>> \o GatherResultsStopsAtFailure(Tail(results))

\* The loop over the gathered results (lines 183-189), results in task order.
RECURSIVE GatherResults(_)
GatherResults(results) ==
    IF results = <<>>
    THEN <<>>
    ELSE LET result == Head(results)
         IN  IF result.kind = "Exception"
             THEN GatherResults(Tail(results))
             ELSE IF result.kind # "None"
                  THEN <<result>> \o GatherResults(Tail(results))
                  ELSE GatherResults(Tail(results))

----------------------------------------------------------------------------
\* Actions

Step(c, t) == task' = [task EXCEPT ![c] = t] /\ UNCHANGED <<cfg, deps, paper>>

Plan(c) ==
    /\ task[c].pc = "plan"
    /\ Step(c, Planned(task[c]))

PlanRaises(c) ==
    /\ task[c].pc = "plan"
    /\ Step(c, Caught(task[c]))

Generate(c) ==
    /\ task[c].pc = "generate"
    /\ Step(c, GeneratedStage(task[c]))

GenerateRaises(c) ==
    /\ task[c].pc = "generate"
    /\ Step(c, GeneratorRaised(task[c]))

ValidateCode(c) ==
    /\ task[c].pc = "structure"
    /\ \E out \in ValidatorOutputs : Step(c, CodeValidationStage(task[c], out))

ValidateSpatial(c) ==
    /\ task[c].pc = "spatial"
    /\ deps.spatial_validator
    /\ \E out \in SpatialOutputs : Step(c, SpatialStage(task[c], out))

SkipSpatial(c) ==
    /\ task[c].pc = "spatial"
    /\ ~deps.spatial_validator
    /\ Step(c, SpatialSkipped(task[c]))

ValidateNarration(c) ==
    /\ task[c].pc = "narration"
    /\ NarrationGateRuns
    /\ \E has_issues \in BOOLEAN : Step(c, NarrationStage(task[c], has_issues))

NarrationRaises(c) ==
    /\ task[c].pc = "narration"
    /\ NarrationGateRuns
    /\ Step(c, NarrationRaised(task[c]))

SkipNarration(c) ==
    /\ task[c].pc = "narration"
    /\ ~NarrationGateRuns
    /\ Step(c, NarrationSkipped(task[c]))

TestRender(c) ==
    /\ task[c].pc = "render"
    /\ deps.render_tester
    /\ \E out \in RenderOutputs : Step(c, RenderStage(task[c], out))

SkipRender(c) ==
    /\ task[c].pc = "render"
    /\ ~deps.render_tester
    /\ Step(c, RenderSkipped(task[c]))

\* validator.validate, spatial_validator.validate or test_render raised.
GateRaises(c) ==
    /\ \/ task[c].pc = "structure"
       \/ task[c].pc = "spatial" /\ deps.spatial_validator
       \/ task[c].pc = "render" /\ deps.render_tester
    /\ Step(c, Caught(task[c]))

Legacy(c) ==
    /\ task[c].pc = "legacy"
    /\ Step(c, LegacyStage(task[c]))

LegacyRaises(c) ==
    /\ task[c].pc = "legacy"
    /\ Step(c, Caught(task[c]))

Exhausted(c) ==
    /\ task[c].pc = "exhausted"
    /\ Step(c, ExhaustedStage(task[c]))

----------------------------------------------------------------------------
\* A direct call of generate_single_visualization (as the tests make it), under
\* any configuration and with any of the optional collaborators.

Configs ==
    [ENABLE_VOICEOVER : BOOLEAN,
     VOICE_MODE : {"unified_generator", "legacy_post_transform"},
     VOICE_FAIL_BEHAVIOR : {"drop_viz", "return_silent", "hard_error"},
     ENABLE_SPATIAL_VALIDATION : {TRUE},
     ENABLE_RENDER_TESTING : {TRUE},
     MAX_RETRIES : 1..MaxRetriesBound,
     VOICE_QUALITY_RETRIES : 0..MaxVoiceRetriesBound]

Collaborators ==
    [spatial_validator : BOOLEAN,
     voiceover_script_validator : {"None", "strict", "lenient"},
     render_tester : BOOLEAN,
     legacy_voiceover_generator : BOOLEAN]

Init ==
    /\ cfg \in Configs
    /\ deps \in Collaborators
    /\ task = [c \in {1} |-> InitTask(c)]
    /\ paper = NoPaper

Next ==
    \/ \E c \in Cands : Plan(c)
    \/ \E c \in Cands : PlanRaises(c)
    \/ \E c \in Cands : Generate(c)
    \/ \E c \in Cands : GenerateRaises(c)
    \/ \E c \in Cands : ValidateCode(c)
    \/ \E c \in Cands : ValidateSpatial(c)
    \/ \E c \in Cands : SkipSpatial(c)
    \/ \E c \in Cands : ValidateNarration(c)
    \/ \E c \in Cands : NarrationRaises(c)
    \/ \E c \in Cands : SkipNarration(c)
    \/ \E c \in Cands : TestRender(c)
    \/ \E c \in Cands : SkipRender(c)
    \/ \E c \in Cands : GateRaises(c)
    \/ \E c \in Cands : Legacy(c)
    \/ \E c \in Cands : LegacyRaises(c)
    \/ \E c \in Cands : Exhausted(c)

Spec == Init /\ [][Next]_vars

----------------------------------------------------------------------------
\* generate_visualizations on a paper whose analysis selected NumCandidates
\* candidates: the collaborators are built from the configuration (lines 125-140),
\* one task per candidate is started (lines 169-182) and the results are gathered
\* (lines 183-189).  The retry counts are those the test sets (test_pipeline.py,
\* lines 575-576).

NumCandidates == 2

PaperConfigs ==
    [ENABLE_VOICEOVER : BOOLEAN,
     VOICE_MODE : {"unified_generator", "legacy_post_transform"},
     VOICE_FAIL_BEHAVIOR : {"drop_viz", "return_silent", "hard_error"},
     ENABLE_SPATIAL_VALIDATION : BOOLEAN,
     ENABLE_RENDER_TESTING : BOOLEAN,
     MAX_RETRIES : {1},
     VOICE_QUALITY_RETRIES : {1}]

\* VOICE_QUALITY_STRICT = True (line 84).
BuiltCollaborators(config) ==
    [spatial_validator |-> config.ENABLE_SPATIAL_VALIDATION,
     voiceover_script_validator |->
         IF config.ENABLE_VOICEOVER /\ config.VOICE_MODE = "unified_generator"
         THEN "strict" ELSE "None",
     render_tester |-> config.ENABLE_RENDER_TESTING,
     legacy_voiceover_generator |->
         config.ENABLE_VOICEOVER /\ config.VOICE_MODE = "legacy_post_transform"]

PaperInit ==
    /\ cfg \in PaperConfigs
    /\ deps = BuiltCollaborators(cfg)
    /\ task = [c \in 1..NumCandidates |-> InitTask(c)]
    /\ paper = [pc |-> "gathering", visualizations |-> <<>>]

\* asyncio.gather returned: every task is over (line 183); the loop over the
\* results and the return (lines 184-208).
Gather ==
    /\ paper.pc = "gathering"
    /\ \A c \in Cands : task[c].pc = "done"
    /\ paper' = [pc |-> "returned",
                 visualizations |-> GatherResults([c \in 1..NumCandidates |-> task[c].result])]
    /\ UNCHANGED <<cfg, deps, task>>

PaperNext == Next \/ Gather

PaperSpec == PaperInit /\ [][PaperNext]_vars

----------------------------------------------------------------------------
\* Vocabulary of the properties, in terms of the configuration and the call log.

Last(seq) == seq[Len(seq)]

GateRank(gate) ==
    CASE gate = "structure" -> 1
      [] gate = "spatial" -> 2
      [] gate = "narration" -> 3
      [] gate = "render" -> 4

NarrationMode == cfg.ENABLE_VOICEOVER /\ cfg.VOICE_MODE = "unified_generator"

EnabledGates ==
    {"structure"}
    \cup (IF deps.spatial_validator THEN {"spatial"} ELSE {})
    \cup (IF NarrationMode /\ deps.voiceover_script_validator # "None"
          THEN {"narration"} ELSE {})
    \cup (IF deps.render_tester THEN {"render"} ELSE {})

Budget == cfg.MAX_RETRIES + (IF NarrationMode THEN cfg.VOICE_QUALITY_RETRIES ELSE 0)

\* Every enabled gate was invoked and accepted, and no gate rejected.
PassedAll(ran) ==
    /\ \A i \in DOMAIN ran : ran[i].accepted
    /\ \A g \in EnabledGates : \E i \in DOMAIN ran : ran[i].gate = g

\* The last gate invoked rejected, on the last attempt of the budget.
BudgetExhausted(t) ==
    /\ t.ran # <<>>
    /\ ~Last(t.ran).accepted
    /\ t.attempt = Budget - 1

\* A step of task c that makes the generator call of its attempt.
GeneratorStep(c) == task[c].pc = "generate" /\ task'[c].pc # "generate"

\* A step of task c in which a gate answered with a rejection.
RejectStep(c) ==
    /\ Len(task'[c].ran) = Len(task[c].ran) + 1
    /\ ~Last(task'[c].ran).accepted

ReportedIssues(ran) == UNION {ran[i].issues : i \in DOMAIN ran}

----------------------------------------------------------------------------
\* C1: within one attempt the gates are invoked only in the order structural,
\* spatial, narration, render test; a gate is invoked only when it is enabled and
\* every enabled gate before it was invoked and accepted in that same attempt.
C1_GatesRunInOrder ==
    \A c \in Cands :
        LET ran == task[c].ran
        IN  \A i \in DOMAIN ran :
                /\ ran[i].gate \in EnabledGates
                /\ \A j \in 1..(i - 1) :
                       ran[j].accepted /\ GateRank(ran[j].gate) < GateRank(ran[i].gate)
                /\ \A g \in EnabledGates :
                       GateRank(g) < GateRank(ran[i].gate)
                           => \E j \in 1..(i - 1) : ran[j].gate = g /\ ran[j].accepted

\* All four gates ran in one attempt and the last of them, the render test, rejected.
C1_Witness ==
    \E c \in Cands :
        /\ Len(task[c].ran) = 4
        /\ task[c].ran[4].gate = "render"
        /\ ~task[c].ran[4].accepted

\* C2 as claimed: a finished call returned a Visualization if and only if its last
\* attempt passed every enabled gate, or the budget was exhausted under return_silent.
C2_EmittedIffPassedOrSilent ==
    \A c \in Cands :
        task[c].pc = "done" =>
            (task[c].result.kind = "Visualization"
                <=> \/ PassedAll(task[c].ran)
                    \/ BudgetExhausted(task[c]) /\ cfg.VOICE_FAIL_BEHAVIOR = "return_silent")

\* C2 as amended: ... if and only if its last attempt passed every enabled gate and
\* the call did not end in the exception handler (the legacy voiceover transform,
\* the one call after the gates, did not raise), or the budget was exhausted under
\* return_silent.
C2_EmittedIffPassedAndNoErrorOrSilent ==
    \A c \in Cands :
        task[c].pc = "done" =>
            (task[c].result.kind = "Visualization"
                <=> \/ PassedAll(task[c].ran) /\ task[c].outcome # "error"
                    \/ BudgetExhausted(task[c]) /\ cfg.VOICE_FAIL_BEHAVIOR = "return_silent")

\* A call returned a Visualization under return_silent after its last attempt was
\* rejected.
C2_Witness ==
    \E c \in Cands :
        /\ task[c].pc = "done"
        /\ BudgetExhausted(task[c])
        /\ cfg.VOICE_FAIL_BEHAVIOR = "return_silent"
        /\ task[c].result.kind = "Visualization"
        /\ task[c].attempt >= 1

\* The call is over and every enabled gate accepted the code of attempt 0.
FirstAttemptPassed(t) == t.pc = "done" /\ t.attempt = 0 /\ PassedAll(t.ran)

OneAttemptConsumed(t) ==
    /\ t.calls = [run |-> 1, run_with_feedback |-> 0]
    /\ \A g \in EnabledGates : Cardinality({i \in DOMAIN t.ran : t.ran[i].gate = g}) = 1
    /\ Len(t.ran) = Cardinality(EnabledGates)

\* C3 as claimed: if every enabled gate accepts the code of attempt 0, one attempt is
\* consumed and the code of the returned artifact is the first-generated code.
C3_FirstCodeReturnedUnchanged ==
    \A c \in Cands :
        FirstAttemptPassed(task[c]) =>
            /\ OneAttemptConsumed(task[c])
            /\ task[c].result.kind = "Visualization"
                   => task[c].result.manim_code = Generated(0)

\* C3 as amended: ... one attempt is consumed, and the code of the returned artifact
\* is the structural validator's output for the first-generated code, passed through
\* the legacy voiceover transform when that applies; no artifact is returned only
\* when that transform raised.
C3_ValidatorOutputReturned ==
    \A c \in Cands :
        FirstAttemptPassed(task[c]) =>
            LET first == task[c].ran[1]
                legacy == cfg.ENABLE_VOICEOVER /\ cfg.VOICE_MODE = "legacy_post_transform"
                              /\ deps.legacy_voiceover_generator
            IN  /\ OneAttemptConsumed(task[c])
                /\ first.gate = "structure" /\ first.code = Generated(0)
                /\ task[c].result.kind = "Visualization"
                       => task[c].result.manim_code =
                              (IF legacy THEN LegacyTransform(first.out) ELSE first.out)
                /\ task[c].result.kind # "Visualization"
                       => legacy /\ task[c].outcome = "error"

\* The first attempt passed all four gates and the artifact carries the auto-fixed
\* text.
C3_Witness ==
    \E c \in Cands :
        /\ FirstAttemptPassed(task[c])
        /\ Len(task[c].ran) = 4
        /\ task[c].result.kind = "Visualization"
        /\ task[c].result.manim_code = AutoFix(Generated(0))

\* C4: when a gate rejects on attempt i and attempt i + 1 is within the budget, the
\* task goes to the generator call of attempt i + 1 (no later gate of attempt i runs,
\* nothing is raised, the call does not end); the generator call of an attempt after
\* the first is run_with_feedback, and what follows it is the structural gate, or
\* the end of the call if the generator raised.  A call ends dropped or silent only
\* on the last attempt of the budget.
C4_RejectionStartsNextAttempt ==
    [][\A c \in Cands :
          /\ (RejectStep(c) /\ task[c].attempt + 1 < Budget) =>
                 /\ task'[c].pc = "generate"
                 /\ task'[c].attempt = task[c].attempt + 1
                 /\ task'[c].outcome = "running"
          /\ (GeneratorStep(c) /\ task[c].attempt >= 1) =>
                 /\ task'[c].gen_call.fn = "run_with_feedback"
                 /\ task'[c].ran = <<>>
                 /\ \/ task'[c].pc = "structure" /\ task'[c].attempt = task[c].attempt
                    \/ task'[c].pc = "done" /\ task'[c].outcome = "error"
          /\ task'[c].outcome \in {"dropped", "silent"} => task'[c].attempt = Budget - 1
      ]_vars

\* The render test rejected attempt 0 and the structural gate of attempt 1 is next,
\* after a feedback call that carries the render failure.
C4_Witness ==
    \E c \in Cands :
        /\ task[c].pc = "structure"
        /\ task[c].attempt = 1
        /\ task[c].gen_call.fn = "run_with_feedback"
        /\ Issue("render", 0) \in task[c].gen_call.error_message

\* C5: the feedback passed to run_with_feedback on attempt i + 1 is not empty and
\* contains the issues of every gate that was invoked on attempt i and reported
\* issues, the gates that accepted with warnings included.
C5_FeedbackHasAllIssuesOfFailedAttempt ==
    [][\A c \in Cands :
          (GeneratorStep(c) /\ task[c].attempt >= 1) =>
              /\ task'[c].gen_call.error_message # {}
              /\ ReportedIssues(task[c].ran) \subseteq task'[c].gen_call.error_message
      ]_vars

\* The feedback of attempt 1 carries the warnings of the structural and the spatial
\* gate, which accepted, and the issues of the narration gate, which rejected.
C5_Witness ==
    \E c \in Cands :
        /\ task[c].attempt = 1
        /\ task[c].gen_call.fn = "run_with_feedback"
        /\ {Issue("structure", 0), Issue("spatial", 0), Issue("narration", 0)}
               \subseteq task[c].gen_call.error_message

\* C6 as claimed: the feedback passed on attempt i + 1 holds nothing but the issues
\* of the gates that were invoked on attempt i (or the fallback text).
C6_FeedbackOnlyFromFailedAttempt ==
    [][\A c \in Cands :
          (GeneratorStep(c) /\ task[c].attempt >= 1) =>
              task'[c].gen_call.error_message
                  \subseteq ReportedIssues(task[c].ran) \cup {FallbackMessage}
      ]_vars

\* C7: the generator call of attempt 0 is run, and the generator call of every
\* attempt i >= 1 is run_with_feedback with a feedback text and with the code of
\* attempt i - 1 (as generated, or as the structural validator rewrote it) as
\* previous_code; run is called once in all.
C7_RunThenRunWithFeedback ==
    [][\A c \in Cands :
          GeneratorStep(c) =>
              LET i == task[c].attempt
                  call == task'[c].gen_call
              IN  /\ i = 0 => call.fn = "run"
                  /\ i >= 1 =>
                         /\ call.fn = "run_with_feedback"
                         /\ call.previous_code \in {Generated(i - 1), AutoFix(Generated(i - 1))}
                         /\ call.error_message # {}
                  /\ task'[c].calls = [run |-> 1, run_with_feedback |-> i]
      ]_vars

\* The third generator call was made, with the auto-fixed code of the second attempt.
C7_Witness ==
    \E c \in Cands :
        /\ task[c].attempt = 2
        /\ task[c].gen_call.fn = "run_with_feedback"
        /\ task[c].gen_call.previous_code = AutoFix(Generated(1))
        /\ task[c].calls = [run |-> 1, run_with_feedback |-> 2]

\* C8: when narration mode is off, the attempts number at most MAX_RETRIES, the
\* budget is exhausted exactly when MAX_RETRIES generator calls were made, and the
\* narration gate is never invoked.
C8_NoNarrationNoAllowance ==
    ~NarrationMode =>
        \A c \in Cands :
            /\ task[c].attempt < cfg.MAX_RETRIES
            /\ task[c].calls.run + task[c].calls.run_with_feedback <= cfg.MAX_RETRIES
            /\ task[c].pc = "exhausted" =>
                   task[c].calls.run + task[c].calls.run_with_feedback = cfg.MAX_RETRIES
            /\ \A i \in DOMAIN task[c].ran : task[c].ran[i].gate # "narration"
            /\ ~task[c].voice_result.present

\* Narration mode is off, a narration validator was supplied and an allowance is
\* configured; the budget is exhausted after a render test rejected.
C8_Witness ==
    /\ ~NarrationMode
    /\ cfg.ENABLE_VOICEOVER
    /\ deps.voiceover_script_validator = "strict"
    /\ cfg.VOICE_QUALITY_RETRIES >= 1
    /\ \E c \in Cands :
           /\ task[c].pc = "exhausted"
           /\ Last(task[c].ran).gate = "render"
           /\ task[c].attempt = cfg.MAX_RETRIES - 1

----------------------------------------------------------------------------
\* A direct call whose generator calls are counted but not logged.
Unlogged == [pc |-> "unlogged", visualizations |-> <<>>]

FairInit ==
    /\ cfg \in Configs
    /\ deps \in Collaborators
    /\ task = [c \in {1} |-> InitTask(c)]
    /\ paper = Unlogged

\* Every collaborator call returns or raises: a task that can step does step.
FairSpec == FairInit /\ [][Next]_vars /\ WF_vars(Next)

Terminal == {"accepted", "dropped", "silent", "error"}

StageRank(pc) ==
    CASE pc = "plan" -> 8
      [] pc = "generate" -> 7
      [] pc = "structure" -> 6
      [] pc = "spatial" -> 5
      [] pc = "narration" -> 4
      [] pc = "render" -> 3
      [] pc = "legacy" -> 2
      [] pc = "exhausted" -> 1
      [] pc = "done" -> 0

\* What is left of the budget, then of the attempt.
Measure(t) == (Budget - t.attempt) * 8 + StageRank(t.pc)

\* C9: a call makes at most budget generator calls, budget being MAX_RETRIES plus
\* VOICE_QUALITY_RETRIES in narration mode; every step uses up some of the budget
\* or of the attempt, a call that is not over can step, a call that is over stays
\* over with exactly one of the four outcomes, and every call is over in the end.
C9_TerminatesWithinBudget ==
    /\ [](\A c \in Cands :
             /\ task[c].calls.run + task[c].calls.run_with_feedback <= Budget
             /\ task[c].attempt < Budget
             /\ task[c].pc = "done" <=> task[c].outcome \in Terminal
             /\ task[c].pc # "done" => task[c].outcome = "running" /\ ENABLED Next)
    /\ [][\A c \in Cands :
             task'[c] # task[c] =>
                 task[c].pc # "done" /\ Measure(task'[c]) < Measure(task[c])]_vars
    /\ <>(\A c \in Cands : task[c].pc = "done")

\* A call is over after it used its whole budget of MaxRetriesBound +
\* MaxVoiceRetriesBound attempts.
C9_Witness ==
    \E c \in Cands :
        /\ task[c].pc = "done"
        /\ task[c].outcome = "dropped"
        /\ task[c].calls.run + task[c].calls.run_with_feedback = Budget
        /\ Budget = MaxRetriesBound + MaxVoiceRetriesBound

----------------------------------------------------------------------------
\* C10: when the budget of a candidate is exhausted (the else block of the loop is
\* reached) under drop_viz, its call returns None; and the list that
\* generate_visualizations returns holds Visualizations only, none of them of a
\* candidate whose call returned None.
C10_DroppedCandidateAbsent ==
    /\ [][\A c \in Cands :
             (task[c].pc = "exhausted" /\ task'[c] # task[c]
                 /\ cfg.VOICE_FAIL_BEHAVIOR = "drop_viz") =>
                 task'[c].pc = "done" /\ task'[c].result = NoneValue]_vars
    /\ [](paper.pc = "returned" =>
             \A i \in DOMAIN paper.visualizations :
                 LET viz == paper.visualizations[i]
                 IN  /\ viz.kind = "Visualization"
                     /\ viz.concept \in Cands
                     /\ task[viz.concept].result = viz)

\* The paper-level call returned a list of one artifact: one candidate was accepted,
\* the other exhausted its budget and was dropped.
C10_Witness ==
    /\ paper.pc = "returned"
    /\ cfg.VOICE_FAIL_BEHAVIOR = "drop_viz"
    /\ Len(paper.visualizations) = 1
    /\ \E c \in Cands : task[c].outcome = "dropped" /\ task[c].attempt = Budget - 1
    /\ \E c \in Cands : task[c].outcome = "accepted"

----------------------------------------------------------------------------
\* The call is over after a gate rejected on the last attempt of the budget, under
\* return_silent.
SilentExhaustion(t) ==
    t.pc = "done" /\ BudgetExhausted(t) /\ cfg.VOICE_FAIL_BEHAVIOR = "return_silent"

\* C11 as claimed: on budget exhaustion under return_silent the call returns an
\* artifact with status pending whose code is the text the generator produced on
\* the last attempt.
C11_SilentReturnsLastGenerated ==
    \A c \in Cands :
        SilentExhaustion(task[c]) =>
            /\ task[c].result.kind = "Visualization"
            /\ task[c].result.status = "pending"
            /\ task[c].result.manim_code = Generated(task[c].attempt)

\* C11 as amended: ... whose code is the text the generator produced on the last
\* attempt, or, when the narration gate ran on that attempt, the structural
\* validator's output for that text.
C11_SilentReturnsLastCodeResult ==
    \A c \in Cands :
        SilentExhaustion(task[c]) =>
            LET ran == task[c].ran
            IN  /\ task[c].result.kind = "Visualization"
                /\ task[c].result.status = "pending"
                /\ task[c].outcome = "silent"
                /\ task[c].result.manim_code =
                       (IF \E i \in DOMAIN ran : ran[i].gate = "narration"
                        THEN ran[1].out
                        ELSE Generated(task[c].attempt))

\* The narration gate rejected the auto-fixed text of the last attempt, and that text
\* was returned.
C11_Witness ==
    \E c \in Cands :
        /\ SilentExhaustion(task[c])
        /\ task[c].attempt >= 1
        /\ Last(task[c].ran).gate = "narration"
        /\ task[c].result.manim_code = AutoFix(Generated(task[c].attempt))

----------------------------------------------------------------------------
\* C12 as claimed: on budget exhaustion under hard_error the error leaves
\* generate_single_visualization (the task's result is an exception, not a value),
\* and generate_visualizations returns no list after that.
C12_HardErrorPropagates ==
    [][/\ \A c \in Cands :
             (task[c].pc = "exhausted" /\ task'[c] # task[c]
                 /\ cfg.VOICE_FAIL_BEHAVIOR = "hard_error") =>
                 task'[c].result.kind = "Exception"
       /\ (paper'.pc = "returned" /\ paper.pc # "returned"
              /\ cfg.VOICE_FAIL_BEHAVIOR = "hard_error") =>
              \A c \in Cands : task[c].result.kind # "Exception"
      ]_vars

----------------------------------------------------------------------------
\* Base retry count 1 and narration allowance 1, a strict narration gate; task c is
\* on its second attempt, which it reached because the narration gate rejected the
\* first one while the gates before it accepted without a warning.
ScenarioB(c) ==
    /\ cfg.MAX_RETRIES = 1 /\ cfg.VOICE_QUALITY_RETRIES = 1
    /\ NarrationMode /\ deps.voiceover_script_validator = "strict"
    /\ task[c].attempt = 1
    /\ task[c].gen_call.error_message = {Issue("narration", 0)}

\* The narration gate rejects in this step of task c.
NarrationRejects(c) == RejectStep(c) /\ Last(task'[c].ran).gate = "narration"

\* C13 as claimed: with base retry count 1 and narration allowance 1, after the
\* narration gate rejected a second time the candidate is given a further attempt
\* (on which it can be accepted); it is not at the end of its budget.
C13_ThirdAttemptAfterTwoRejections ==
    [][\A c \in Cands :
          (ScenarioB(c) /\ NarrationRejects(c)) =>
              task'[c].pc = "generate" /\ task'[c].attempt = 2
      ]_vars

\* C13 as amended: with base retry count 1 and narration allowance 1 the budget is
\* two attempts; a candidate whose narration gate rejects once and then accepts (all
\* other gates accepting) is accepted on the second, final attempt; a second
\* rejection by the narration gate exhausts the budget.
C13_AcceptedAfterOneRejection ==
    [][\A c \in Cands :
          ScenarioB(c) =>
              /\ Budget = 2
              /\ NarrationRejects(c) => task'[c].pc = "exhausted"
              /\ (task[c].pc # "done" /\ task'[c].pc = "done" /\ PassedAll(task'[c].ran)) =>
                     /\ task'[c].outcome = "accepted"
                     /\ task'[c].result.kind = "Visualization"
                     /\ task'[c].attempt = 1
      ]_vars

\* The narration gate rejected attempt 0 and accepted attempt 1, and the candidate
\* was accepted.
C13_Witness ==
    \E c \in Cands :
        /\ ScenarioB(c)
        /\ task[c].outcome = "accepted"
        /\ task[c].result.kind = "Visualization"
        /\ \E i \in DOMAIN task[c].ran :
               task[c].ran[i].gate = "narration" /\ task[c].ran[i].accepted

----------------------------------------------------------------------------
\* Some step of generate_single_visualization for candidate c.
Moves(c) ==
    \/ Plan(c) \/ PlanRaises(c) \/ Generate(c) \/ GenerateRaises(c)
    \/ ValidateCode(c) \/ ValidateSpatial(c) \/ SkipSpatial(c)
    \/ ValidateNarration(c) \/ NarrationRaises(c) \/ SkipNarration(c)
    \/ TestRender(c) \/ SkipRender(c) \/ GateRaises(c)
    \/ Legacy(c) \/ LegacyRaises(c) \/ Exhausted(c)

Succeeded == {c \in Cands : task[c].result.kind = "Visualization"}

\* C14: with the concurrent fan-out, whatever happened to its siblings (an exception,
\* a drop), a candidate that is not over can step and its steps touch no other
\* candidate; every result handed to the gather is a value, never an exception;
\* once all are over the paper-level call returns, and the list it returns holds
\* exactly the artifacts of the candidates that succeeded, in candidate order.
C14_SiblingsUnaffected ==
    /\ [](\A c \in Cands :
             /\ task[c].pc # "done" => ENABLED Moves(c)
             /\ task[c].result.kind # "Exception")
    /\ []((paper.pc = "gathering" /\ \A c \in Cands : task[c].pc = "done")
             => ENABLED Gather)
    /\ [][\A c \in Cands :
             task'[c] # task[c] => \A d \in Cands \ {c} : task'[d] = task[d]]_vars
    /\ [](paper.pc = "returned" =>
             LET list == paper.visualizations
             IN  /\ \A c \in Cands : task[c].pc = "done"
                 /\ Len(list) = Cardinality(Succeeded)
                 /\ \A i \in DOMAIN list :
                        /\ list[i].concept \in Succeeded
                        /\ list[i] = task[list[i].concept].result
                        /\ \A j \in DOMAIN list : i < j => list[i].concept < list[j].concept)

\* The first candidate's generator call raised, the last candidate was accepted after
\* it, and the list that was returned holds the artifacts of all but the first.
C14_Witness ==
    /\ paper.pc = "returned"
    /\ task[1].outcome = "error" /\ task[1].calls = [run |-> 1, run_with_feedback |-> 0]
    /\ \A c \in Cands \ {1} : task[c].outcome = "accepted"
    /\ Len(paper.visualizations) = NumCandidates - 1
    /\ paper.visualizations[1].concept = 2

----------------------------------------------------------------------------
\* The call of task c ended in this step in the exception handler: None is returned
\* (a value, no exception), on the attempt the task was on.
EndsInHandler(c) ==
    /\ task'[c].pc = "done"
    /\ task'[c].outcome = "error"
    /\ task'[c].result = NoneValue
    /\ task'[c].attempt = task[c].attempt
    /\ task'[c].ran = <<>>

\* C15: the planner call either returns, and the loop is entered, or raises, and the
\* call ends with None before any generator or gate call; a generator call either
\* returns, and the structural gate is next, or raises, and the call ends with None
\* on that same attempt; a call that ended makes no further call.
C15_PlannerOrGeneratorErrorEndsCandidate ==
    [][\A c \in Cands :
          /\ (task[c].pc = "plan" /\ task'[c] # task[c]) =>
                 \/ task'[c].pc \in {"generate", "exhausted"} /\ task'[c].outcome = "running"
                 \/ EndsInHandler(c) /\ task'[c].calls = [run |-> 0, run_with_feedback |-> 0]
          /\ (task[c].pc = "generate" /\ task'[c] # task[c]) =>
                 /\ task'[c].calls.run + task'[c].calls.run_with_feedback
                        = task[c].attempt + 1
                 /\ \/ /\ task'[c].pc = "structure"
                       /\ task'[c].attempt = task[c].attempt
                       /\ task'[c].outcome = "running"
                    \/ EndsInHandler(c)
          /\ task[c].pc = "done" => task'[c] = task[c]
      ]_vars

\* The generator raised on the second attempt, in run_with_feedback: the call is over
\* with None after two generator calls and no gate call on that attempt.
C15_Witness ==
    \E c \in Cands :
        /\ task[c].pc = "done"
        /\ task[c].outcome = "error"
        /\ task[c].result = NoneValue
        /\ task[c].attempt = 1
        /\ task[c].attempt < Budget - 1
        /\ task[c].gen_call.fn = "run_with_feedback"
        /\ task[c].calls = [run |-> 1, run_with_feedback |-> 1]
        /\ task[c].ran = <<>>

----------------------------------------------------------------------------
\* process_paper_job (jobs/worker.py), the render phase: one _render_one coroutine
\* per visualization record, gathered.  The variable paper holds the job.

MaxRecords == 4

\* asyncio.Semaphore(3), line 198.
RenderPermits == 3

\* The module's configuration as written (pipeline.py 69-86); the render phase reads
\* none of it.
SourceConfig ==
    [ENABLE_VOICEOVER |-> TRUE, VOICE_MODE |-> "unified_generator",
     VOICE_FAIL_BEHAVIOR |-> "drop_viz",
     ENABLE_SPATIAL_VALIDATION |-> TRUE, ENABLE_RENDER_TESTING |-> TRUE,
     MAX_RETRIES |-> MaxRetriesBound, VOICE_QUALITY_RETRIES |-> MaxVoiceRetriesBound]

\* Job progress is kept in units of 1/(100 * ProgressUnit), so that
\* completed_count / len(viz_records) is exact for every number of records.
RECURSIVE Factorial(_)
Factorial(n) == IF n <= 1 THEN 1 ELSE n * Factorial(n - 1)

ProgressUnit == Factorial(MaxRecords)

\* A progress given in hundredths: Fraction(75) is 0.75.
Fraction(hundredths) == hundredths * ProgressUnit

\* render_progress = 0.75 + (0.20 * (completed_count / len(viz_records)))
\* (lines 223 and 241)
RenderProgress(completed_count, records) ==
    Fraction(75) + (20 * ProgressUnit * completed_count) \div records

\* queries.update_job_status (db/queries.py 43-74): the arguments that are not
\* None are written to the job's row.
UpdateJobStatus(row, given) ==
    [field \in DOMAIN row |-> IF field \in DOMAIN given THEN given[field] ELSE row[field]]

\* The job as create_job leaves it (db/queries.py 20-32), when process_paper_job
\* is called: paper_exists is what queries.paper_exists will answer, generated the
\* number of visualizations generate_visualizations will return.
QueuedJob(paper_exists, generated) ==
    [pc |-> "start", paper_exists |-> paper_exists, generated |-> generated,
     render |-> <<>>, status |-> <<>>,
     render_semaphore |-> 0, progress_lock |-> FALSE, completed_count |-> 0,
     raised |-> {},
     job |-> [status |-> "queued", progress |-> 0,
              sections_completed |-> 0, sections_total |-> 0]]

\* The job when the render phase starts (lines 198-201) with n records: every
\* coroutine is before its `async with render_semaphore`, every record is pending,
\* and the job's row is as the updates of lines 85-196 left it.
RenderPhase(n) ==
    [QueuedJob(TRUE, n) EXCEPT
        !.pc = "rendering",
        !.render = [i \in 1..n |-> "acquire"],
        !.status = [i \in 1..n |-> "pending"],
        !.render_semaphore = RenderPermits,
        !.job = [status |-> "processing", progress |-> Fraction(75),
                 sections_completed |-> 0, sections_total |-> n]]

Records == DOMAIN paper.render

\* Fault variant of SemaphoreFree: no admission control.
SemaphoreAlwaysFree(job) == TRUE

\* Semaphore.acquire does not block.
SemaphoreFree(job) == job.render_semaphore > 0

\* Leaving `async with render_semaphore` (the end of _render_one).
Released(job, i, pc) ==
    [job EXCEPT !.render[i] = pc, !.render_semaphore = @ + 1]

RenderStep(job) == paper' = job /\ UNCHANGED <<cfg, deps, task>>

\* async with render_semaphore (line 204), then process_visualization is called.
AcquireSemaphore(i) ==
    /\ paper.render[i] = "acquire"
    /\ SemaphoreFree(paper)
    /\ RenderStep([paper EXCEPT !.render[i] = "process_visualization",
                                !.render_semaphore = @ - 1])

\* process_visualization returned a video_url (lines 207-212).
RenderReturns(i) ==
    /\ paper.render[i] = "process_visualization"
    /\ RenderStep([paper EXCEPT !.render[i] = "update_complete"])

\* process_visualization raised (line 229).
RenderRaises(i) ==
    /\ paper.render[i] = "process_visualization"
    /\ RenderStep([paper EXCEPT !.render[i] = "update_failed"])

\* update_visualization_status(status="complete") returned (lines 213-218).
MarkComplete(i) ==
    /\ paper.render[i] = "update_complete"
    /\ RenderStep([paper EXCEPT !.render[i] = "lock", !.status[i] = "complete"])

\* It raised: the except branch runs.
MarkCompleteRaises(i) ==
    /\ paper.render[i] = "update_complete"
    /\ RenderStep([paper EXCEPT !.render[i] = "update_failed"])

\* update_visualization_status(status="failed") returned (lines 231-236).
MarkFailed(i) ==
    /\ paper.render[i] = "update_failed"
    /\ RenderStep([paper EXCEPT !.render[i] = "lock_failed", !.status[i] = "failed"])

\* It raised inside the except branch: the exception leaves _render_one.
MarkFailedRaises(i) ==
    /\ paper.render[i] = "update_failed"
    /\ RenderStep([Released(paper, i, "done") EXCEPT !.raised = @ \cup {i}])

\* async with progress_lock, completed_count += 1 (lines 221-223 and 239-241).
AcquireLock(i) ==
    /\ paper.render[i] \in {"lock", "lock_failed"}
    /\ ~paper.progress_lock
    /\ RenderStep([paper EXCEPT
           !.render[i] = IF @ = "lock" THEN "progress" ELSE "progress_failed",
           !.progress_lock = TRUE,
           !.completed_count = @ + 1])

\* update_job_status returned (lines 224-228 and 242-246): the lock and the
\* semaphore are released.
ProgressUpdated(i) ==
    /\ paper.render[i] \in {"progress", "progress_failed"}
    /\ RenderStep([Released(paper, i, "done") EXCEPT
           !.progress_lock = FALSE,
           !.job = UpdateJobStatus(@,
                       [progress |-> RenderProgress(paper.completed_count,
                                                    Len(paper.render)),
                        sections_completed |-> paper.completed_count])])

\* update_job_status raised in the try body: the lock is released, the except
\* branch runs.
ProgressRaises(i) ==
    /\ paper.render[i] = "progress"
    /\ RenderStep([paper EXCEPT !.render[i] = "update_failed", !.progress_lock = FALSE])

\* update_job_status raised in the except branch: the exception leaves _render_one.
ProgressFailedRaises(i) ==
    /\ paper.render[i] = "progress_failed"
    /\ RenderStep([Released(paper, i, "done") EXCEPT
           !.progress_lock = FALSE, !.raised = @ \cup {i}])

WorkerInit ==
    /\ cfg = SourceConfig
    /\ deps = BuiltCollaborators(SourceConfig)
    /\ task = <<>>
    /\ paper \in {RenderPhase(n) : n \in 1..MaxRecords}

WorkerNext ==
    \/ \E i \in Records : AcquireSemaphore(i)
    \/ \E i \in Records : RenderReturns(i)
    \/ \E i \in Records : RenderRaises(i)
    \/ \E i \in Records : MarkComplete(i)
    \/ \E i \in Records : MarkCompleteRaises(i)
    \/ \E i \in Records : MarkFailed(i)
    \/ \E i \in Records : MarkFailedRaises(i)
    \/ \E i \in Records : AcquireLock(i)
    \/ \E i \in Records : ProgressUpdated(i)
    \/ \E i \in Records : ProgressRaises(i)
    \/ \E i \in Records : ProgressFailedRaises(i)

WorkerSpec == WorkerInit /\ [][WorkerNext]_vars

\* The records whose process_visualization call is executing.
Rendering == {i \in Records : paper.render[i] = "process_visualization"}

\* The coroutines inside `async with render_semaphore`.
Admitted == {i \in Records : paper.render[i] \notin {"acquire", "done"}}

\* C16: during the render phase at most 3 process_visualization calls are executing,
\* however many records wait: the calls execute inside the semaphore, which admits
\* at most RenderPermits coroutines and is never over-released.
C16_AtMostThreeRenders ==
    /\ Cardinality(Rendering) <= RenderPermits
    /\ Rendering \subseteq Admitted
    /\ Cardinality(Admitted) + paper.render_semaphore = RenderPermits
    /\ paper.render_semaphore >= 0

\* Three renders execute while another record waits for the semaphore.
C16_Witness ==
    /\ Cardinality(Rendering) = RenderPermits
    /\ \E i \in Records : paper.render[i] = "acquire"

----------------------------------------------------------------------------
\* VoiceoverScriptValidator (agents/voiceover_script_validator.py).
\*
\* A score is a multiple of 1 / Scale, so that every division the code makes
\* (by the number of terms, at most 8, and by the number of lines) is exact.

MaxLines == 2

Scale == 100 * 840 * 6

Hundredths(n) == n * (Scale \div 100)

Min(a, b) == IF a < b THEN a ELSE b
Max(a, b) == IF a > b THEN a ELSE b

\* max(0.0, min(1.0, x))
Clamp(x) == Max(0, Min(Scale, x))

RECURSIVE Sum(_)
Sum(seq) == IF seq = <<>> THEN 0 ELSE Head(seq) + Sum(Tail(seq))

\* The anchors of _rule_alignment_score (lines 168-171).
Anchors ==
    {"query", "key", "value", "attention", "softmax", "weight",
     "score", "representation", "token", "context"}

\* The terms lines and candidates are made of here: four anchors, five others.  A
\* term stands for a token after the stop-word filter and _normalize_token.  With
\* nine terms a line can hold more than the eight the overlap ratio is capped at.
TermUniverse ==
    {"query", "key", "value", "attention",
     "gradient", "matrix", "tensor", "layer", "vector"}

\* The terms of the candidates (_build_reference_terms, lines 150-153).
ReferenceUniverse == {"query", "key", "gradient", "matrix", "tensor"}

\* _rule_alignment_score (lines 155-175), on the term set of the line.
\* Fault variant first: each anchor hit adds 0.04, a fifth of what the code adds.
RuleAlignmentScoreWeakAnchors(terms, reference_terms) ==
    IF terms = {} THEN 0
    ELSE IF reference_terms = {} THEN Scale \div 2
    ELSE LET overlap == Cardinality(terms \cap reference_terms)
             terms_len == Max(1, Min(8, Cardinality(terms)))
             anchor_hits == Cardinality(terms \cap Anchors)
         IN  Clamp(Hundredths(45) + Hundredths(4) * Min(3, anchor_hits)
                       + (Hundredths(25) * overlap) \div terms_len)

RuleAlignmentScore(terms, reference_terms) ==
    IF terms = {} THEN 0
    ELSE IF reference_terms = {} THEN Scale \div 2
    ELSE LET overlap == Cardinality(terms \cap reference_terms)
             terms_len == Max(1, Min(8, Cardinality(terms)))
             anchor_hits == Cardinality(terms \cap Anchors)
         IN  Clamp(Hundredths(45) + Hundredths(20) * Min(3, anchor_hits)
                       + (Hundredths(25) * overlap) \div terms_len)

\* min_words, the constructor's default (line 38).
min_words == 6

\* _rule_educational_score (lines 177-189), on the features of the line it reads.
RuleEducationalScore(line) ==
    LET penalties ==
              (IF line.banned_start THEN Hundredths(45) ELSE 0)
            + (IF line.screen THEN Hundredths(20) ELSE 0)
            + (IF line.watch THEN Hundredths(15) ELSE 0)
            + (IF line.words < min_words THEN Hundredths(20) ELSE 0)
    IN  Clamp(Hundredths(95) - penalties)


\* Optional[float]
None == [some |-> FALSE, value |-> 0]
Some(x) == [some |-> TRUE, value |-> x]

\* re.findall of the keyword form, and of the positional form when the first found
\* nothing (lines 72-82); blocks lists the forms of the narration blocks of the code.
VoiceoverBlocks(code) ==
    LET keyword == SelectSeq(code.blocks, LAMBDA b : b = "keyword")
    IN  IF keyword # <<>>
        THEN keyword
        ELSE SelectSeq(code.blocks, LAMBDA b : b = "positional")

\* Fault variant of StructuralIssues: the hard checks are skipped in lenient mode.
StructuralIssuesWhenStrict(instance, code) ==
    IF ~instance.strict THEN <<>>
    ELSE (IF ~code.scene THEN <<"Missing VoiceoverScene inheritance.">> ELSE <<>>)
         \o (IF ~code.speech
             THEN <<"Missing set_speech_service(...) call in construct().">> ELSE <<>>)
         \o (IF VoiceoverBlocks(code) = <<>>
             THEN <<"No voiceover narration blocks found.">> ELSE <<>>)

\* The required voiceover structures (lines 65-84).
StructuralIssues(instance, code) ==
    (IF ~code.scene THEN <<"Missing VoiceoverScene inheritance.">> ELSE <<>>)
    \o (IF ~code.speech
        THEN <<"Missing set_speech_service(...) call in construct().">> ELSE <<>>)
    \o (IF VoiceoverBlocks(code) = <<>>
        THEN <<"No voiceover narration blocks found.">> ELSE <<>>)

\* The loop over the narration lines (lines 92-103), from index idx on: the issues
\* and the two lists of rule scores.
RECURSIVE LineRules(_, _, _)
LineRules(narrations, idx, reference_terms) ==
    IF idx > Len(narrations)
    THEN [issues |-> <<>>, alignment |-> <<>>, educational |-> <<>>]
    ELSE LET line == narrations[idx]
             rest == LineRules(narrations, idx + 1, reference_terms)
         IN  IF line.blank
             THEN rest
             ELSE [issues |->
                       (IF line.banned_start
                        THEN <<"Narration " \o ToString(idx)
                                   \o " starts with animation command style wording.">>
                        ELSE <<>>) \o rest.issues,
                   alignment |->
                       <<RuleAlignmentScore(line.terms, reference_terms)>> \o rest.alignment,
                   educational |-> <<RuleEducationalScore(line)>> \o rest.educational]

\* sum(scores) / len(scores) if scores else 0.0 (lines 105-112).
Mean(scores) == IF scores # <<>> THEN Sum(scores) \div Len(scores) ELSE 0

\* Fault variant of LlmJudge: an object without a score key is unusable.
LlmJudgeRequiresKeys(judge) ==
    IF judge.kind = "object" /\ judge.has_alignment /\ judge.has_educational
    THEN [alignment |-> Some(judge.score_alignment),
          educational |-> Some(judge.score_educational)]
    ELSE [alignment |-> None, educational |-> None]

\* _llm_judge (lines 199-239) on the answer of the judge: no API key, an exception
\* of the call, a text that is no JSON, a JSON value that is no object or holds a
\* score that float() refuses, or a JSON object, whose absent scores default to 0.0.
LlmJudge(judge) ==
    IF judge.kind = "object"
    THEN [alignment |-> Some(IF judge.has_alignment THEN judge.score_alignment ELSE 0),
          educational |-> Some(IF judge.has_educational THEN judge.score_educational ELSE 0)]
    ELSE [alignment |-> None, educational |-> None]

\* Fault variant of Thresholds: one threshold, the alignment one, for both scores.
ThresholdsShared(instance, final_alignment, final_educational) ==
    (IF final_alignment < instance.alignment_threshold
     THEN <<"Alignment score is below threshold.">> ELSE <<>>)
    \o (IF final_educational < instance.alignment_threshold
        THEN <<"Educational score is below threshold.">> ELSE <<>>)

\* The two threshold checks (lines 127-134).
Thresholds(instance, final_alignment, final_educational) ==
    (IF final_alignment < instance.alignment_threshold
     THEN <<"Alignment score is below threshold.">> ELSE <<>>)
    \o (IF final_educational < instance.educational_threshold
        THEN <<"Educational score is below threshold.">> ELSE <<>>)

\* The judge is asked (line 117).
JudgeCalled(instance, generated_code) ==
    instance.use_llm_judge /\ generated_code.narration_lines # <<>>

\* validate (lines 54-145): the returned VoiceoverValidationOutput, and in locals
\* the values of the local variables at the return.
Validate(instance, generated_code, reference_terms, judge) ==
    LET rules == LineRules(generated_code.narration_lines, 1, reference_terms)
        rule_alignment == Mean(rules.alignment)
        rule_educational == Mean(rules.educational)
        llm == IF JudgeCalled(instance, generated_code)
               THEN LlmJudge(judge)
               ELSE [alignment |-> None, educational |-> None]
        final_alignment ==
            IF llm.alignment.some THEN llm.alignment.value ELSE rule_alignment
        final_educational ==
            IF llm.educational.some THEN llm.educational.value ELSE rule_educational
        issues == StructuralIssues(instance, generated_code.code) \o rules.issues
                      \o Thresholds(instance, final_alignment, final_educational)
        is_valid == Len(issues) = 0
    IN  [is_valid |-> is_valid,
         issues_found |-> issues,
         score_alignment |-> Clamp(final_alignment),
         score_educational |-> Clamp(final_educational),
         needs_regeneration |-> VoiceNeedsRegeneration(instance.strict, ~is_valid),
         locals |-> [rule_alignment |-> rule_alignment,
                     rule_educational |-> rule_educational,
                     llm_alignment |-> llm.alignment,
                     llm_educational |-> llm.educational,
                     final_alignment |-> final_alignment,
                     final_educational |-> final_educational]]


----------------------------------------------------------------------------
\* Calls of validate.  task holds the one call, deps the validator instance.

Line(banned_start, screen, watch, words, terms) ==
    [blank |-> FALSE, banned_start |-> banned_start, screen |-> screen,
     watch |-> watch, words |-> words, terms |-> terms]

\* Narration lines: an empty one, one that explains, one that commands an animation,
\* and one that says nothing about the concept.
SampleLines ==
    {[blank |-> TRUE, banned_start |-> FALSE, screen |-> FALSE, watch |-> FALSE,
      words |-> 0, terms |-> {}],
     Line(FALSE, FALSE, FALSE, 9, {"query", "key", "gradient"}),
     Line(TRUE, TRUE, FALSE, 5, {"matrix"}),
     Line(FALSE, FALSE, TRUE, 7, {})}

Narrations == UNION {[1..n -> SampleLines] : n \in 0..MaxLines}

Codes ==
    [scene : BOOLEAN, speech : BOOLEAN,
     blocks : {<<>>, <<"keyword">>, <<"positional">>, <<"positional", "keyword">>}]

\* The constructor's arguments (lines 35-52): the defaults, and other thresholds.
Instances ==
    {[strict |-> s, use_llm_judge |-> j,
      alignment_threshold |-> Hundredths(th[1]),
      educational_threshold |-> Hundredths(th[2])] :
        s \in BOOLEAN, j \in BOOLEAN, th \in {<<70, 70>>, <<60, 80>>}}

JudgeScores == {Hundredths(40), Hundredths(75), Hundredths(130)}

NotAsked ==
    [kind |-> "not_asked", has_alignment |-> FALSE, score_alignment |-> 0,
     has_educational |-> FALSE, score_educational |-> 0]

\* What the judge can answer.
JudgeAnswers ==
    {[NotAsked EXCEPT !.kind = k] : k \in {"no_api_key", "raises", "not_json", "not_an_object"}}
    \cup {[kind |-> "object", has_alignment |-> TRUE, score_alignment |-> a,
           has_educational |-> TRUE, score_educational |-> e] :
              a \in JudgeScores, e \in JudgeScores}
    \cup {[kind |-> "object", has_alignment |-> ha, score_alignment |-> 0,
           has_educational |-> he, score_educational |-> 0] :
              ha \in {FALSE}, he \in {FALSE}}
    \cup {[kind |-> "object", has_alignment |-> TRUE, score_alignment |-> a,
           has_educational |-> FALSE, score_educational |-> 0] : a \in JudgeScores}

NoOutput ==
    [is_valid |-> FALSE, issues_found |-> <<>>, score_alignment |-> 0,
     score_educational |-> 0, needs_regeneration |-> FALSE,
     locals |-> [rule_alignment |-> 0, rule_educational |-> 0,
                 llm_alignment |-> None, llm_educational |-> None,
                 final_alignment |-> 0, final_educational |-> 0]]

ValidatorInit ==
    /\ cfg = SourceConfig
    /\ paper = NoPaper
    /\ deps \in Instances
    /\ \E code \in Codes, narration_lines \in Narrations, reference_terms \in {{}, {"query", "gradient", "matrix"}} :
           task = <<[pc |-> "validate",
                     generated_code |-> [code |-> code, narration_lines |-> narration_lines],
                     reference_terms |-> reference_terms,
                     judge |-> NotAsked,
                     voice_result |-> NoOutput]>>

Returned(call, judge) ==
    [call EXCEPT !.pc = "returned", !.judge = judge,
                 !.voice_result = Validate(deps, call.generated_code,
                                           call.reference_terms, judge)]

\* validate, asking the judge.
ValidateWithJudge ==
    /\ task[1].pc = "validate"
    /\ JudgeCalled(deps, task[1].generated_code)
    /\ \E judge \in JudgeAnswers : task' = <<Returned(task[1], judge)>>
    /\ UNCHANGED <<cfg, deps, paper>>

\* validate, on the rule scores alone.
ValidateWithoutJudge ==
    /\ task[1].pc = "validate"
    /\ ~JudgeCalled(deps, task[1].generated_code)
    /\ task' = <<Returned(task[1], NotAsked)>>
    /\ UNCHANGED <<cfg, deps, paper>>

\* The pipeline's narration gate reads the result (pipeline.py 388-400).
NarrationGateReads ==
    /\ task[1].pc = "returned"
    /\ task' = <<[task[1] EXCEPT !.pc = IF task[1].voice_result.needs_regeneration
                                        THEN "continue" ELSE "passed"]>>
    /\ UNCHANGED <<cfg, deps, paper>>

ValidatorNext == ValidateWithJudge \/ ValidateWithoutJudge \/ NarrationGateReads

ValidatorSpec == ValidatorInit /\ [][ValidatorNext]_vars


----------------------------------------------------------------------------
Has(issues, text) == \E i \in DOMAIN issues : issues[i] = text

Over(call) == call.pc # "validate"

\* C17: whenever the code lacks the VoiceoverScene base type, lacks the
\* set_speech_service( call, or holds no narration block of either form, validate
\* returns an invalid result with the corresponding issue, for every instance
\* (strict or not, any thresholds) and whatever the rule and judge scores are.
C17_StructuralChecksAlwaysApply ==
    LET call == task[1]
        code == call.generated_code.code
        out == call.voice_result
    IN  Over(call) =>
            /\ ~code.scene =>
                   ~out.is_valid /\ Has(out.issues_found, "Missing VoiceoverScene inheritance.")
            /\ ~code.speech =>
                   /\ ~out.is_valid
                   /\ Has(out.issues_found,
                          "Missing set_speech_service(...) call in construct().")
            /\ code.blocks = <<>> =>
                   ~out.is_valid /\ Has(out.issues_found, "No voiceover narration blocks found.")
            /\ (code.scene /\ code.speech /\ code.blocks # <<>>) =>
                   /\ ~Has(out.issues_found, "Missing VoiceoverScene inheritance.")
                   /\ ~Has(out.issues_found,
                           "Missing set_speech_service(...) call in construct().")
                   /\ ~Has(out.issues_found, "No voiceover narration blocks found.")

\* A lenient validator whose judge gave scores above both thresholds returned an
\* invalid result for a code without the scene base type.
C17_Witness ==
    LET call == task[1]
    IN  /\ Over(call)
        /\ ~deps.strict
        /\ call.judge.kind = "object"
        /\ call.voice_result.locals.final_alignment >= deps.alignment_threshold
        /\ call.voice_result.locals.final_educational >= deps.educational_threshold
        /\ ~call.generated_code.code.scene
        /\ call.generated_code.code.blocks = <<"positional">>
        /\ call.voice_result.issues_found = <<"Missing VoiceoverScene inheritance.">>
        /\ ~call.voice_result.is_valid

ValidScores(judge) ==
    /\ judge.kind = "object" /\ judge.has_alignment /\ judge.has_educational
    /\ judge.score_alignment \in 0..Scale /\ judge.score_educational \in 0..Scale

\* The judge is unavailable, its call raised, or its answer is not a JSON object
\* with the two scores.
UnavailableOrMalformed(judge) ==
    \/ judge.kind \in {"no_api_key", "raises", "not_json", "not_an_object"}
    \/ judge.kind = "object" /\ ~(judge.has_alignment /\ judge.has_educational)

\* C19 as claimed: when the judge returns valid scores the final scores are the
\* judge's, and when the judge is unavailable, raises or returns malformed output
\* the final scores are the rule scores.
C19_JudgeReplacesOrHeuristicsStay ==
    LET call == task[1]
        out == call.voice_result.locals
    IN  (Over(call) /\ call.judge.kind # "not_asked") =>
            /\ ValidScores(call.judge) =>
                   /\ out.final_alignment = call.judge.score_alignment
                   /\ out.final_educational = call.judge.score_educational
            /\ UnavailableOrMalformed(call.judge) =>
                   /\ out.final_alignment = out.rule_alignment
                   /\ out.final_educational = out.rule_educational


----------------------------------------------------------------------------
\* _rule_alignment_score on a line and on the line with one more anchor term.
\* task holds the line's terms, the reference terms, the score of the line and the
\* score of the line it was extended from.

Scored(terms, reference_terms, pc, shorter_score) ==
    [pc |-> pc, terms |-> terms, reference_terms |-> reference_terms,
     score |-> RuleAlignmentScore(terms, reference_terms),
     shorter_score |-> shorter_score]

ScoreInit ==
    /\ cfg = SourceConfig
    /\ paper = NoPaper
    /\ deps \in {i \in Instances : i.strict /\ i.use_llm_judge}
    /\ \E terms \in SUBSET TermUniverse, reference_terms \in SUBSET ReferenceUniverse :
           task = <<Scored(terms, reference_terms, "scored", 0)>>

\* The same line with one more anchor term in it, scored again.
AddAnchorTerm ==
    /\ \E anchor \in (Anchors \cap TermUniverse) \ task[1].terms :
           task' = <<Scored(task[1].terms \cup {anchor}, task[1].reference_terms,
                            "rescored", task[1].score)>>
    /\ UNCHANGED <<cfg, deps, paper>>

ScoreNext == AddAnchorTerm

ScoreSpec == ScoreInit /\ [][ScoreNext]_vars

\* C20: a line with one more anchor term than an otherwise identical line scores at
\* least as much alignment as that line, for every term set of the line and every
\* set of reference terms.
C20_AlignmentMonotonicInAnchors ==
    /\ task[1].score \in 0..Scale
    /\ task[1].pc = "rescored" => task[1].score >= task[1].shorter_score

\* The added anchor is no reference term, so the overlap ratio of the line fell, and
\* the score still rose.
C20_Witness ==
    /\ task[1].pc = "rescored"
    /\ task[1].terms \cap Anchors \cap task[1].reference_terms = {}
    /\ task[1].terms \cap task[1].reference_terms # {}
    /\ Cardinality(task[1].terms) <= 8
    /\ task[1].score > task[1].shorter_score
    /\ task[1].score < Scale

----------------------------------------------------------------------------
\* Narration line extraction: ManimGenerator._extract_narration_lines
\* (agents/manim_generator.py) and _extract_voiceover_metadata (pipeline.py).
\* A source string is the sequence of its lines of interest: a narration block in
\* the keyword form  with self.voiceover(text="...") as tracker:  or in the
\* positional form  with self.voiceover("...") as tracker: , a beat comment, or any
\* other line.  The literal of a block is a sequence of characters.
\* task holds the one call.

MaxBlocks == 2

\* Literals between the quotes: empty, plain, padded with blanks, blank only.
SampleTexts ==
    {<<>>, <<"a">>, <<"b">>, <<" ">>, <<" ", "a">>, <<"a", " ", "b", " ">>}

SourceLines ==
    [kind : {"keyword", "positional"}, text : SampleTexts]
    \cup [kind : {"beat", "other"}, text : {<<>>}]

Sources == UNION {[1..n -> SourceLines] : n \in 0..MaxBlocks}

\* re.findall of one of the two patterns: the groups "([^"]+)" of the blocks of
\* that form, in source order.  The group needs one character at least, so a block
\* with an empty literal is no match.
FindAll(code, form) ==
    LET matches == SelectSeq(code, LAMBDA l : l.kind = form /\ l.text # <<>>)
    IN  [i \in 1..Len(matches) |-> matches[i].text]

\* str.strip(), the leading blanks.
RECURSIVE LStrip(_)
LStrip(text) ==
    IF text # <<>> /\ Head(text) = " " THEN LStrip(Tail(text)) ELSE text

\* str.strip(), the trailing blanks.
RECURSIVE RStrip(_)
RStrip(text) ==
    IF text # <<>> /\ text[Len(text)] = " "
    THEN RStrip(SubSeq(text, 1, Len(text) - 1))
    ELSE text

Strip(text) == RStrip(LStrip(text))

\* [m.strip() for m in matches if m.strip()]
StrippedNonEmpty(matches) ==
    SelectSeq([i \in 1..Len(matches) |-> Strip(matches[i])], LAMBDA m : m # <<>>)

\* ManimGenerator._extract_narration_lines (manim_generator.py 167-181): the
\* positional pattern is tried only when the keyword pattern matched nothing.
ExtractNarrationLines(code) ==
    LET matches == FindAll(code, "keyword")
    IN  IF matches # <<>>
        THEN StrippedNonEmpty(matches)
        ELSE StrippedNonEmpty(FindAll(code, "positional"))

\* _extract_voiceover_metadata (pipeline.py 89-107): narrations and beat labels.
ExtractVoiceoverMetadata(code) ==
    LET keyword == FindAll(code, "keyword")
        narrations == IF keyword = <<>> THEN FindAll(code, "positional") ELSE keyword
        beats == SelectSeq(code, LAMBDA l : l.kind = "beat")
    IN  [narrations |-> StrippedNonEmpty(narrations),
         beats |-> [i \in 1..Len(beats) |-> "beat"]]

ExtractInit ==
    /\ cfg = SourceConfig
    /\ paper = NoPaper
    /\ deps \in {i \in Instances : i.strict /\ i.use_llm_judge}
    /\ \E code \in Sources :
           task = <<[pc |-> "generated", code |-> code, narration_lines |-> <<>>,
                     narrations |-> <<>>, beats |-> <<>>]>>

\* The generator builds its GeneratedCode (manim_generator.py 328).
GeneratorExtracts ==
    /\ task[1].pc = "generated"
    /\ task' = <<[task[1] EXCEPT !.pc = "narration_gate",
                     !.narration_lines = ExtractNarrationLines(task[1].code)]>>
    /\ UNCHANGED <<cfg, deps, paper>>

\* The narration stage of the pipeline reads the code again (pipeline.py 376).
PipelineExtracts ==
    /\ task[1].pc = "narration_gate"
    /\ LET metadata == ExtractVoiceoverMetadata(task[1].code)
       IN  task' = <<[task[1] EXCEPT !.pc = "extracted",
                         !.narrations = metadata.narrations,
                         !.beats = metadata.beats]>>
    /\ UNCHANGED <<cfg, deps, paper>>

ExtractNext == GeneratorExtracts \/ PipelineExtracts

ExtractSpec == ExtractInit /\ [][ExtractNext]_vars

\* The literals of every block either pattern matches, in source order.
RecognizedLiterals(code) ==
    LET blocks == SelectSeq(code, LAMBDA l : l.kind \in {"keyword", "positional"}
                                              /\ l.text # <<>>)
    IN  [i \in 1..Len(blocks) |-> blocks[i].text]

\* C21: both extractions return exactly the literal text of every recognized
\* narration block of the source, keyword or positional, in source order, also for
\* a source that holds blocks of both forms.
C21_ExtractionRecoversLiterals ==
    /\ task[1].pc \in {"narration_gate", "extracted"}
          => task[1].narration_lines = RecognizedLiterals(task[1].code)
    /\ task[1].pc = "extracted"
          => task[1].narrations = RecognizedLiterals(task[1].code)

\* A source with an unpadded block of each form: the positional literal is lost.
C21_Witness ==
    /\ task[1].pc = "extracted"
    /\ \E i, j \in 1..Len(task[1].code) :
          /\ task[1].code[i] = [kind |-> "positional", text |-> <<"a">>]
          /\ task[1].code[j] = [kind |-> "keyword", text |-> <<"b">>]
    /\ task[1].narrations = <<<<"b">>>>
    /\ task[1].narration_lines = <<<<"b">>>>

----------------------------------------------------------------------------
\* _analyze_all_sections (pipeline.py 211-263), the branch CONCURRENT_ANALYSIS = True
\* (line 71): the sections are filtered, analyzer.run is started on every section
\* kept, and the candidates of the results are collected in section order.
\* The variable paper holds the call.

MaxSections == 2

\* A title is its text in lower case and the way it is capitalised.
Title(name, style) == [name |-> name, style |-> style]

\* str.lower()
Lower(title) == Title(title.name, "lower")

\* skip_titles (lines 218-226)
skip_titles ==
    {Title(name, "lower") :
        name \in {"references", "bibliography", "acknowledgments", "acknowledgements",
                  "appendix", "supplementary", "related work"}}

SampleTitles ==
    {Title(name, style) :
        name \in {"references", "related work", "appendix a", "method"},
        style \in {"lower", "Capitalised"}}

\* A section: its title, and whether len(section.content) > 100.
SampleSections == [title : SampleTitles, long : BOOLEAN]

\* Fault variant of SectionKept: the title is compared as written.
SectionKeptCaseSensitive(section) ==
    section.title \notin skip_titles /\ section.long

\* The condition of the list comprehension (lines 228-232).
SectionKept(section) ==
    Lower(section.title) \notin skip_titles /\ section.long

\* sections_to_analyze, as the positions of the sections kept.
RECURSIVE SectionsToAnalyze(_, _)
SectionsToAnalyze(sections, idx) ==
    IF idx > Len(sections)
    THEN <<>>
    ELSE (IF SectionKept(sections[idx]) THEN <<idx>> ELSE <<>>)
         \o SectionsToAnalyze(sections, idx + 1)

\* What analyzer.run may answer for the section at position origin: it raises, or
\* it returns needs_visualization and one or two candidates.
AnalyzerOutputs(origin) ==
    {[kind |-> "Exception", needs_visualization |-> FALSE, candidates |-> <<>>]}
    \cup {[kind |-> "AnalyzerOutput", needs_visualization |-> b,
           candidates |-> [k \in 1..n |-> [origin |-> origin, concept |-> k]]] :
              b \in BOOLEAN, n \in 1..2}

Pending == [kind |-> "pending", needs_visualization |-> FALSE, candidates |-> <<>>]

\* The loop over the gathered results (lines 244-248).
RECURSIVE CollectCandidates(_)
CollectCandidates(results) ==
    IF results = <<>>
    THEN <<>>
    ELSE LET result == Head(results)
         IN  IF result.kind = "Exception"
             THEN CollectCandidates(Tail(results))
             ELSE IF result.needs_visualization
                  THEN result.candidates \o CollectCandidates(Tail(results))
                  ELSE CollectCandidates(Tail(results))

AnalysisInit ==
    /\ cfg = SourceConfig
    /\ deps = BuiltCollaborators(cfg)
    /\ task = <<>>
    /\ \E n \in 0..MaxSections : \E sections \in [1..n -> SampleSections] :
           paper = [pc |-> "filter", sections |-> sections,
                    sections_to_analyze |-> <<>>, results |-> <<>>,
                    candidates |-> <<>>]

AnalysisStep(call) == paper' = call /\ UNCHANGED <<cfg, deps, task>>

\* Lines 216-242: the filter, and one analyzer.run per section kept.
FilterSections ==
    /\ paper.pc = "filter"
    /\ LET kept == SectionsToAnalyze(paper.sections, 1)
       IN  AnalysisStep([paper EXCEPT !.pc = "gather",
                            !.sections_to_analyze = kept,
                            !.results = [i \in 1..Len(kept) |-> Pending]])

\* analyzer.run returns for the i-th section kept.
AnalyzerReturns(i) ==
    /\ paper.pc = "gather"
    /\ paper.results[i] = Pending
    /\ \E out \in AnalyzerOutputs(paper.sections_to_analyze[i]) :
          /\ out.kind = "AnalyzerOutput"
          /\ AnalysisStep([paper EXCEPT !.results[i] = out])

\* analyzer.run raises for the i-th section kept.
AnalyzerRaises(i) ==
    /\ paper.pc = "gather"
    /\ paper.results[i] = Pending
    /\ \E out \in AnalyzerOutputs(paper.sections_to_analyze[i]) :
          /\ out.kind = "Exception"
          /\ AnalysisStep([paper EXCEPT !.results[i] = out])

\* asyncio.gather returned (line 242); lines 244-263.
ReturnCandidates ==
    /\ paper.pc = "gather"
    /\ \A i \in DOMAIN paper.results : paper.results[i] # Pending
    /\ AnalysisStep([paper EXCEPT !.pc = "returned",
                        !.candidates = CollectCandidates(paper.results)])

AnalysisNext ==
    \/ FilterSections
    \/ \E i \in 1..MaxSections : i \in DOMAIN paper.results /\ AnalyzerReturns(i)
    \/ \E i \in 1..MaxSections : i \in DOMAIN paper.results /\ AnalyzerRaises(i)
    \/ ReturnCandidates

AnalysisSpec == AnalysisInit /\ [][AnalysisNext]_vars

\* The title, in any capitalisation, is one of the administrative titles.
Administrative(section) ==
    section.title.name \in {"references", "bibliography", "acknowledgments",
                            "acknowledgements", "appendix", "supplementary",
                            "related work"}

\* C22: analyzer.run is never started on a section whose title is references,
\* bibliography, acknowledgments, acknowledgements, appendix, supplementary or
\* related work, however capitalised, and no candidate that is returned for planning
\* comes from such a section.
C22_AdministrativeSectionsNeverAnalyzed ==
    /\ \A i \in DOMAIN paper.sections_to_analyze :
          ~Administrative(paper.sections[paper.sections_to_analyze[i]])
    /\ \A k \in DOMAIN paper.candidates :
          ~Administrative(paper.sections[paper.candidates[k].origin])

\* A paper with a long section "References" and a long section "method": the
\* analysis returned candidates, all of them of the second section.
C22_Witness ==
    /\ paper.pc = "returned"
    /\ Len(paper.sections) = 2
    /\ paper.sections[1] = [title |-> Title("references", "Capitalised"), long |-> TRUE]
    /\ paper.sections[2] = [title |-> Title("method", "lower"), long |-> TRUE]
    /\ paper.sections_to_analyze = <<2>>
    /\ Len(paper.candidates) = 2

----------------------------------------------------------------------------
\* generate_visualizations (pipeline.py 110-208), from the candidates that
\* _analyze_all_sections returns to the list it returns itself, in the branch
\* CONCURRENT_GENERATION = True (line 72).  A call of generate_single_visualization
\* is one step here: it returns a Visualization of its candidate or None (its
\* inside is the subject of Spec and PaperSpec).  The variable paper holds the
\* call of generate_visualizations, task the calls started for the candidates.

MaxExtracted == 3
MaxVisualizationsBound == 2

Priorities == 1..3

\* The candidates _analyze_all_sections may return: concept is the position in
\* extraction order.
ExtractedCandidates ==
    UNION {[1..n -> Priorities] : n \in 0..MaxExtracted}

CandidateList(priorities) ==
    [k \in 1..Len(priorities) |-> [concept |-> k, priority |-> priorities[k]]]

\* list.sort is stable, with reverse=True too: a candidate goes behind every
\* candidate of a priority at least its own.
RECURSIVE InsertByPriority(_, _)
InsertByPriority(sorted, candidate) ==
    IF sorted = <<>>
    THEN <<candidate>>
    ELSE IF Head(sorted).priority >= candidate.priority
         THEN <<Head(sorted)>> \o InsertByPriority(Tail(sorted), candidate)
         ELSE <<candidate>> \o sorted

\* Fault variant of SortByPriority: the candidates stay in extraction order.
SortByPriorityOmitted(candidates) == candidates

\* candidates.sort(key=lambda x: x.priority, reverse=True) (line 158)
RECURSIVE SortByPriority(_)
SortByPriority(candidates) ==
    IF candidates = <<>>
    THEN <<>>
    ELSE InsertByPriority(SortByPriority(SubSeq(candidates, 1, Len(candidates) - 1)),
                          candidates[Len(candidates)])

\* candidates[:max_visualizations] (line 159), for max_visualizations >= 0
Capped(candidates, max_visualizations) ==
    SubSeq(candidates, 1, Min(Len(candidates), max_visualizations))

\* Fault variant of GatheredOrder: the results in the order of completion.
GatheredOrderAsCompleted(tasks, completed) == completed

\* asyncio.gather returns the results in the order of the awaitables (line 183).
GatheredOrder(tasks, completed) == [c \in 1..Len(tasks) |-> c]

SelectInit ==
    /\ cfg = SourceConfig
    /\ deps = BuiltCollaborators(cfg)
    /\ task = <<>>
    /\ \E max_visualizations \in 0..MaxVisualizationsBound :
           paper = [pc |-> "analyze", max_visualizations |-> max_visualizations,
                    extracted |-> <<>>, candidates |-> <<>>, completed |-> <<>>,
                    visualizations |-> <<>>]

\* Lines 152-182: _analyze_all_sections returns; no candidate ends the call;
\* otherwise the candidates are sorted and cut, and one call of
\* generate_single_visualization is started for each one left.
AnalyzeSortStart ==
    /\ paper.pc = "analyze"
    /\ \E priorities \in ExtractedCandidates :
          LET extracted == CandidateList(priorities)
              candidates == Capped(SortByPriority(extracted), paper.max_visualizations)
          IN  IF extracted = <<>>
              THEN /\ paper' = [paper EXCEPT !.pc = "returned"]
                   /\ task' = <<>>
              ELSE /\ paper' = [paper EXCEPT !.pc = "gathering",
                                             !.extracted = extracted,
                                             !.candidates = candidates]
                   /\ task' = [c \in 1..Len(candidates) |-> InitTask(candidates[c])]
    /\ UNCHANGED <<cfg, deps>>

\* generate_single_visualization returns a Visualization for the c-th candidate.
CandidateAccepted(c) ==
    /\ paper.pc = "gathering"
    /\ task[c].pc # "done"
    /\ task' = [task EXCEPT ![c] = Return(task[c], "accepted",
                                          Visualization(task[c].candidate, Generated(1)))]
    /\ paper' = [paper EXCEPT !.completed = Append(@, c)]
    /\ UNCHANGED <<cfg, deps>>

\* generate_single_visualization returns None for the c-th candidate.
CandidateDropped(c) ==
    /\ paper.pc = "gathering"
    /\ task[c].pc # "done"
    /\ task' = [task EXCEPT ![c] = Return(task[c], "dropped", NoneValue)]
    /\ paper' = [paper EXCEPT !.completed = Append(@, c)]
    /\ UNCHANGED <<cfg, deps>>

\* asyncio.gather returned (line 183); the loop over the results and the return
\* (lines 184-208).
GatherSelected ==
    /\ paper.pc = "gathering"
    /\ \A c \in DOMAIN task : task[c].pc = "done"
    /\ LET order == GatheredOrder(task, paper.completed)
       IN  paper' = [paper EXCEPT !.pc = "returned",
                         !.visualizations =
                             GatherResults([k \in 1..Len(order) |-> task[order[k]].result])]
    /\ UNCHANGED <<cfg, deps, task>>

SelectNext ==
    \/ AnalyzeSortStart
    \/ \E c \in 1..MaxExtracted : c \in DOMAIN task /\ CandidateAccepted(c)
    \/ \E c \in 1..MaxExtracted : c \in DOMAIN task /\ CandidateDropped(c)
    \/ GatherSelected

SelectSpec == SelectInit /\ [][SelectNext]_vars

\* The candidates for which generate_single_visualization was started.
Processed == {task[c].candidate : c \in DOMAIN task}

\* The candidates that were extracted and not processed.
Cut == {paper.extracted[k] : k \in DOMAIN paper.extracted} \ Processed

\* C23: the per-candidate pipeline is started for at most max_visualizations
\* candidates, no processed candidate has a priority strictly below that of a
\* candidate that was cut, and the returned list never holds more than
\* max_visualizations artifacts.
C23_CappedAtHighestPriorities ==
    /\ Len(task) <= paper.max_visualizations
    /\ Processed \subseteq {paper.extracted[k] : k \in DOMAIN paper.extracted}
    /\ Len(task) = Min(Len(paper.extracted), paper.max_visualizations)
    /\ \A p \in Processed : \A q \in Cut : p.priority >= q.priority
    /\ Len(paper.visualizations) <= paper.max_visualizations

\* Three candidates were extracted, the one of the highest priority last; two
\* were processed, one was cut, and both processed ones were accepted.
C23_Witness ==
    /\ paper.pc = "returned"
    /\ paper.max_visualizations = 2
    /\ Len(paper.extracted) = 3
    /\ paper.extracted[3].priority > paper.extracted[1].priority
    /\ paper.extracted[1].priority > paper.extracted[2].priority
    /\ Cut = {paper.extracted[2]}
    /\ Len(paper.visualizations) = 2

\* One candidate is ranked before another: its priority is higher, or the
\* priorities are equal and it was extracted earlier.
RankedBefore(a, b) ==
    \/ a.priority > b.priority
    \/ a.priority = b.priority /\ a.concept < b.concept

\* The tasks that returned a Visualization.
AcceptedTasks == {c \in DOMAIN task : task[c].result.kind = "Visualization"}

\* C27: the returned list holds the artifacts of the accepted candidates in the
\* order of the selected candidates, which is priority descending with equal
\* priorities in extraction order, whatever the order in which the calls completed.
C27_ReturnedInCandidateOrder ==
    /\ \A i, j \in DOMAIN paper.candidates :
          i < j => RankedBefore(paper.candidates[i], paper.candidates[j])
    /\ \A c \in DOMAIN task : task[c].candidate = paper.candidates[c]
    /\ paper.pc = "returned" =>
          /\ {paper.visualizations[k].concept : k \in DOMAIN paper.visualizations}
                = {task[c].candidate : c \in AcceptedTasks}
          /\ \A i, j \in DOMAIN paper.visualizations :
                i < j => RankedBefore(paper.visualizations[i].concept,
                                      paper.visualizations[j].concept)

\* Two candidates of equal priority, extracted behind one of a lower priority; the
\* second of the two completed first, and both are in the list.
C27_Witness ==
    /\ paper.pc = "returned"
    /\ Len(paper.extracted) = 3
    /\ paper.extracted[1].priority < paper.extracted[2].priority
    /\ paper.extracted[2].priority = paper.extracted[3].priority
    /\ paper.completed = <<2, 1>>
    /\ Len(paper.visualizations) = 2
    /\ paper.visualizations[1].concept = paper.extracted[2]
    /\ paper.visualizations[2].concept = paper.extracted[3]

----------------------------------------------------------------------------
\* The gates after the structural one in the attempt's log, and the structural
\* validator's output they are to be given.
LaterGatesGetValidatorOutput(ran) ==
    ran # <<>> =>
        /\ ran[1].gate = "structure"
        /\ \A i \in 2..Len(ran) :
              /\ ran[1].accepted
              /\ ran[1].out \in {ran[1].code, AutoFix(ran[1].code)}
              /\ ran[i].code = ran[1].out

\* C24 as claimed: after the structural gate accepted in an attempt, every later
\* gate of that attempt is given the structural validator's output code, and the
\* code of an accepted artifact is that output code of the accepted attempt.
C24_ValidatorOutputFlowsToArtifact ==
    \A c \in Cands :
        /\ LaterGatesGetValidatorOutput(task[c].ran)
        /\ task[c].outcome = "accepted" =>
              /\ task[c].ran[1].code = Generated(task[c].attempt)
              /\ task[c].result.manim_code = task[c].ran[1].out

\* C24 as amended: ... and the code of an accepted artifact is that output code of
\* the accepted attempt, or, when the legacy voiceover transform applies, the
\* transform's output for it.
C24_ValidatorOutputFlowsToArtifactOrTransform ==
    \A c \in Cands :
        /\ LaterGatesGetValidatorOutput(task[c].ran)
        /\ task[c].outcome = "accepted" =>
              /\ task[c].ran[1].code = Generated(task[c].attempt)
              /\ task[c].result.manim_code =
                     (IF LegacyTransformApplies
                      THEN LegacyTransform(task[c].ran[1].out)
                      ELSE task[c].ran[1].out)

\* A second attempt was auto-fixed by the structural validator, the three later
\* gates were given the fixed text and accepted it, and the artifact carries it.
C24_Witness ==
    \E c \in Cands :
        /\ task[c].outcome = "accepted"
        /\ task[c].attempt = 1
        /\ Len(task[c].ran) = 4
        /\ \A i \in 2..4 : task[c].ran[i].code = AutoFix(Generated(1))
        /\ task[c].result.manim_code = AutoFix(Generated(1))

----------------------------------------------------------------------------
\* C25: when the generator is called for attempt i + 1 and no gate invoked on
\* attempt i recorded an issue, the feedback passed to run_with_feedback is the
\* fixed fallback message, and it is never empty.
C25_FallbackWhenNoIssuesRecorded ==
    [][\A c \in Cands :
          (/\ GeneratorStep(c)
           /\ task[c].attempt >= 1
           /\ ReportedIssues(task[c].ran) = {}) =>
              /\ task'[c].gen_call.fn = "run_with_feedback"
              /\ task'[c].gen_call.error_message = {FallbackMessage}
      ]_vars

\* The second attempt is generated after a first attempt whose only gate rejected
\* without listing an issue: the feedback is the fallback message.
C25_Witness ==
    \E c \in Cands :
        /\ task[c].attempt = 1
        /\ task[c].pc = "structure"
        /\ task[c].gen_call.fn = "run_with_feedback"
        /\ task[c].gen_call.error_message = {FallbackMessage}

----------------------------------------------------------------------------
\* C26: every Visualization that generate_single_visualization returns, accepted
\* by all gates or returned under return_silent after a gate failed, has status
\* pending and no video URL, and apart from its code it holds nothing but what the
\* candidate determines: no field tells a degraded artifact from a validated one.
C26_ArtifactsAlwaysPending ==
    \A c \in Cands :
        /\ task[c].result.kind = "Visualization" =>
              /\ task[c].outcome \in {"accepted", "silent"}
              /\ task[c].result.status = "pending"
              /\ task[c].result.video_url = "None"
              /\ task[c].result =
                     Visualization(task[c].candidate, task[c].result.manim_code)
        /\ task[c].outcome \in {"accepted", "silent"} =>
              task[c].result.kind = "Visualization"

\* An artifact was returned under return_silent after the render test rejected the
\* last attempt; its code is the text an accepted artifact would carry.
C26_Witness ==
    \E c \in Cands :
        /\ task[c].outcome = "silent"
        /\ task[c].ran # <<>>
        /\ Last(task[c].ran).gate = "render"
        /\ ~Last(task[c].ran).accepted
        /\ task[c].result = Visualization(task[c].candidate, Generated(task[c].attempt))

----------------------------------------------------------------------------
LegacyMode == cfg.ENABLE_VOICEOVER /\ cfg.VOICE_MODE = "legacy_post_transform"

----------------------------------------------------------------------------
\* process_paper_job (jobs/worker.py 62-291) from its call to its end, with
\* _ingest_and_store_paper (294-313).  One step per update of the job's row; the
\* render phase is the one of WorkerSpec.  The variable paper holds the job.

MaxGenerated == 2

JobInit ==
    /\ cfg = SourceConfig
    /\ deps = BuiltCollaborators(SourceConfig)
    /\ task = <<>>
    /\ paper \in {QueuedJob(paper_exists, generated) :
                     paper_exists \in BOOLEAN, generated \in 0..MaxGenerated}

\* A step of process_paper_job that writes the job's row.
JobStep(pc, given) ==
    /\ paper' = [paper EXCEPT !.pc = pc, !.job = UpdateJobStatus(@, given)]
    /\ UNCHANGED <<cfg, deps, task>>

\* Lines 82-93.
StartJob ==
    /\ paper.pc = "start"
    /\ JobStep(IF paper.paper_exists THEN "link" ELSE "fetch",
               [status |-> "processing", progress |-> Fraction(10)])

\* _ingest_and_store_paper, lines 300-304.
FetchMetadata ==
    /\ paper.pc = "fetch"
    /\ JobStep("parse", [progress |-> Fraction(15)])

\* ingest_paper returned; lines 309-313.
ParseSections ==
    /\ paper.pc = "parse"
    /\ JobStep("analyze", [progress |-> Fraction(30)])

\* The paper is in the database already (lines 101-114).
LinkExistingPaper ==
    /\ paper.pc = "link"
    /\ JobStep("analyze", [progress |-> Fraction(30)])

\* Lines 120-124.
AnalyzeConcepts ==
    /\ paper.pc = "analyze"
    /\ JobStep("generate", [progress |-> Fraction(50)])

\* generate_visualizations returned and a pending record was stored for every
\* visualization (lines 136-166); with none the job is completed (168-176).
CreateRecords ==
    /\ paper.pc = "generate"
    /\ IF paper.generated = 0
       THEN JobStep("completed", [status |-> "completed", progress |-> Fraction(100)])
       ELSE /\ paper' = [paper EXCEPT
                   !.pc = "announce",
                   !.status = [i \in 1..paper.generated |-> "pending"]]
            /\ UNCHANGED <<cfg, deps, task>>

\* Lines 183-189.
AnnounceRendering ==
    /\ paper.pc = "announce"
    /\ JobStep("begin", [progress |-> Fraction(70),
                         sections_total |-> Len(paper.status),
                         sections_completed |-> 0])

\* Lines 192-201 and 249-252: the second update, then the coroutines are started.
BeginRendering ==
    /\ paper.pc = "begin"
    /\ paper' = [paper EXCEPT
           !.pc = "rendering",
           !.render = [i \in DOMAIN paper.status |-> "acquire"],
           !.render_semaphore = RenderPermits,
           !.job = UpdateJobStatus(@, [progress |-> Fraction(75)])]
    /\ UNCHANGED <<cfg, deps, task>>

\* asyncio.gather returned (line 250): every coroutine ended and none raised.
GatherReturns ==
    /\ paper.pc = "rendering"
    /\ \A i \in Records : paper.render[i] = "done"
    /\ paper.raised = {}
    /\ paper' = [paper EXCEPT !.pc = "finalize"]
    /\ UNCHANGED <<cfg, deps, task>>

\* Lines 264-269.
FinalizeJob ==
    /\ paper.pc = "finalize"
    /\ JobStep("completed", [status |-> "completed", progress |-> Fraction(100)])

\* The handler of process_paper_job (lines 279-291): the job is marked failed,
\* unless that update raises too.
HandlerRuns ==
    \E marked \in BOOLEAN :
        JobStep("failed", IF marked THEN [status |-> "failed"] ELSE << >>)

\* A call of process_paper_job outside the render coroutines raised.
JobRaises ==
    /\ paper.pc \in {"start", "fetch", "parse", "link", "analyze", "generate",
                     "announce", "begin", "finalize"}
    /\ HandlerRuns

\* An exception left a _render_one coroutine: gather raises it at once (line 250)
\* and the other coroutines run on.
GatherRaises ==
    /\ paper.pc = "rendering"
    /\ paper.raised # {}
    /\ HandlerRuns

JobNext ==
    \/ StartJob
    \/ FetchMetadata
    \/ ParseSections
    \/ LinkExistingPaper
    \/ AnalyzeConcepts
    \/ CreateRecords
    \/ AnnounceRendering
    \/ BeginRendering
    \/ WorkerNext
    \/ GatherReturns
    \/ FinalizeJob
    \/ JobRaises
    \/ GatherRaises

JobSpec == JobInit /\ [][JobNext]_vars

\* C29: no step of process_paper_job lowers the job's recorded progress, under
\* every interleaving of the render coroutines, and the progress reaches 1.0 only
\* in an update that sets the status to completed.
C29_ProgressNeverDecreases ==
    [][/\ paper'.job.progress >= paper.job.progress
       /\ (paper.job.progress < Fraction(100) /\ paper'.job.progress >= Fraction(100))
              => (paper'.job.status = "completed" /\ paper.job.status # "completed")
      ]_vars

\* A job with one record: its render succeeded, the progress update in the try
\* body raised, the except branch counted the record again, and the job's row
\* holds a progress above 1.0 while the job is still processing.
C29_Witness ==
    /\ paper.pc = "rendering"
    /\ Len(paper.render) = 1
    /\ paper.render[1] = "done"
    /\ paper.completed_count = 2
    /\ paper.job.status = "processing"
    /\ paper.job.progress = RenderProgress(2, 1)
    /\ paper.job.progress > Fraction(100)

\* The render phase is over: asyncio.gather returned.
RenderPhaseFinished ==
    paper.pc \in {"finalize", "completed"} /\ Len(paper.render) > 0

\* C30: when the render phase of process_paper_job is over, every record of the
\* job is complete or failed and none is pending, sections_completed equals the
\* number of records, the job is not failed, and once the last update is made the
\* job is completed with progress 1.0, whether renders failed or not.
C30_RenderPhaseEndState ==
    RenderPhaseFinished =>
        /\ \A i \in Records : paper.status[i] \in {"complete", "failed"}
        /\ paper.job.sections_completed = Len(paper.render)
        /\ paper.job.sections_total = Len(paper.render)
        /\ paper.job.status # "failed"
        /\ paper.pc = "completed" =>
              /\ paper.job.status = "completed"
              /\ paper.job.progress = Fraction(100)

\* A job with one record is completed with progress 1.0, its record is failed
\* although its render succeeded, and sections_completed is 2.
C30_Witness ==
    /\ paper.pc = "completed"
    /\ Len(paper.render) = 1
    /\ paper.status = <<"failed">>
    /\ paper.job.status = "completed"
    /\ paper.job.progress = Fraction(100)
    /\ paper.job.sections_total = 1
    /\ paper.job.sections_completed = 2

====
